---- MODULE Spec2Model ----
(***************************************************************************)
(* Model of the SIDOT / VitalConnect AI service (src/ai-service/app):      *)
(*   - the permission matrix (middleware/permissions.py),                  *)
(*   - BaseTool.run and its confirmation gate (tools/base.py),             *)
(*   - the chat endpoint and the confirm endpoint with the audit table     *)
(*     they share (routers/chat.py, repository/audit_repo.py,              *)
(*     repository/base.py, models/audit_log.py, database.py),              *)
(*   - the tenant context (middleware/tenant.py),                          *)
(*   - the document index: ingestion, chunking, deletion, re-indexing and  *)
(*     retrieval (rag/ingestion.py, rag/vector_store.py,                   *)
(*     rag/query_engine.py),                                               *)
(*   - the background tasks: the indexing tasks and the retry and audit    *)
(*     behaviour of AuditedTask (celery_app/tasks/base.py, query.py,       *)
(*     indexing.py),                                                       *)
(*   - the CopilotAgent session and the tool context its tools share       *)
(*     (agents/copilot_agent.py).                                          *)
(*                                                                         *)
(* Specifications:                                                         *)
(*   SpecRun  calls of BaseTool.run, one after the other;                  *)
(*   Spec     chat requests and concurrent confirm requests, each confirm  *)
(*            request a task with its own database session, interleaved    *)
(*            at its awaits;                                               *)
(*   SpecSeq  the same requests, a confirm request starting only when no   *)
(*            other confirm request is in flight;                          *)
(*   SpecPerm    calls of check_permission and of the agent's tool list;   *)
(*   SpecTenant  calls of create_tenant_context;                           *)
(*   SpecRag     ingest, delete, re-index, search and retrieval on one     *)
(*               collection shared by the tenants;                         *)
(*   SpecIndex   ingest, delete and re-index alone;                        *)
(*   SpecBatch   ingest and the task batch_index_documents;                *)
(*   SpecChunk   calls of _chunk_text, one loop iteration a step, and of   *)
(*               create_nodes_from_text;                                   *)
(*   SpecTask    a background task in the worker, attempt after attempt;   *)
(*   SpecChat    chat requests, those that meet a database error included; *)
(*   SpecAgent   one CopilotAgent session: tool calls and confirm_action.  *)
(***************************************************************************)
EXTENDS Integers, Sequences, FiniteSets, TLC

VARIABLES
    \* ---- BaseTool.run ----
    last,            \* the last call of run(): its arguments and what it gave
    returned_ids,    \* the confirmation_action_id values returned so far, in order
    execute_count,   \* spy: how many times a tool's execute() was invoked
    call_count,      \* how many times run() was called
    \* ---- shared ----
    uuid_count,      \* how many uuid4() values were drawn
    \* ---- chat / confirm endpoints ----
    db,              \* committed rows of ai_action_audit_log, by id
    tasks,           \* the confirm requests that passed the checks, by request slot
    rejected,        \* the last confirm request that was rejected
    row_lock,        \* row id -> slot holding the row's write lock (0: none)
    chat_returned,   \* action ids the chat endpoint returned in confirmation_required
    executions,      \* row id -> invocations of _execute_confirmed_action for it
    tool_execute_log, \* invocations of a tool's execute() made by the confirm endpoint
    \* ---- permission checks ----
    perm_seen,       \* the calls of check_permission so far: arguments and outcome
    tools_last,      \* the last CopilotAgent._get_allowed_tools: role and what it gave
    \* ---- tenant context ----
    ctx_seen,        \* the calls of create_tenant_context so far: arguments and outcome
    \* ---- document index (rag/) ----
    points,          \* the points of the Qdrant collection: id, text, payload metadata
    collection_exists, \* whether the collection was created
    node_seq,        \* how many node ids were drawn
    ingested_for,    \* node id -> the tenant_id argument of the ingest that made it
    rag_last,        \* the last operation on the index: arguments and what it gave
    \* ---- chunking and node creation (rag/ingestion.py) ----
    ck,              \* the running call of _chunk_text: its locals and position
    cn_last,         \* the last call of create_nodes_from_text: arguments and what it gave
    \* ---- background tasks (celery_app/tasks/) ----
    celery_task,     \* the task message in the worker: retries, audit record, outcome
    \* ---- chat requests that ended in an error ----
    chat_failed,     \* the last chat request that raised: its query log and response
    \* ---- retry delays ----
    delay_seen,      \* the calls of _get_retry_delay so far: argument and value
    \* ---- CopilotAgent ----
    agent            \* one agent session: its tool context and its last call

vars == <<last, returned_ids, execute_count, call_count, uuid_count,
          db, tasks, rejected, row_lock, chat_returned, executions,
          tool_execute_log, perm_seen, tools_last, ctx_seen,
          points, collection_exists, node_seq, ingested_for, rag_last,
          ck, cn_last, celery_task, chat_failed, delay_seen, agent>>

runVars  == <<last, returned_ids, execute_count, call_count>>
chatVars == <<db, tasks, rejected, row_lock, chat_returned, executions,
              tool_execute_log>>

permVars == <<perm_seen, tools_last>>
baseVars == <<runVars, uuid_count, chatVars>>
ragVars  == <<points, collection_exists, node_seq, ingested_for, rag_last>>
chunkVars == <<ck, cn_last>>
laterVars == <<celery_task, chat_failed, delay_seen, agent>>
moreVars == <<chunkVars, laterVars>>
extVars  == <<permVars, ctx_seen, ragVars, moreVars>>

None == "None"

(***************************************************************************)
(* Bounds of the model.                                                    *)
(***************************************************************************)
MaxUuid == 5      \* uuid4() values drawn in one behaviour
MaxCalls == 2     \* calls of BaseTool.run in one behaviour
MaxChats == 1     \* chat requests in one behaviour
MaxPermSeen == 2  \* distinct check_permission calls remembered in one behaviour
MaxCtxSeen == 2   \* distinct create_tenant_context calls remembered in one behaviour
MaxNodes == 2     \* node ids drawn in one behaviour
MaxChunkLoop == 12 \* iterations of the chunking loop that are followed
chunk_size == 4   \* chunk_size of the ingestion pipeline, in characters
chunk_overlap == 1 \* chunk_overlap of the ingestion pipeline, in characters

\* how far back _find_sentence_boundary looks
SentenceSearchWindow == 100

(***************************************************************************)
(* middleware/permissions.py                                               *)
(***************************************************************************)
Role == {"admin", "gestor", "operador", "medico"}

\* role strings a request context can carry: the four roles and one that is
\* no member of the Role enum
RoleStrings == Role \cup {"auditor"}

PERMISSION_MATRIX ==
    [ list_occurrences         |-> {"admin", "gestor", "operador", "medico"},
      get_occurrence_details   |-> {"admin", "gestor", "operador", "medico"},
      search_documentation     |-> {"admin", "gestor", "operador", "medico"},
      update_occurrence_status |-> {"admin", "gestor", "operador"},
      send_team_notification   |-> {"admin", "gestor"},
      generate_report          |-> {"admin", "gestor"} ]

ROLE_HIERARCHY == [admin |-> 4, gestor |-> 3, operador |-> 2, medico |-> 1]

get_minimum_required_role(tool_name) ==
    LET allowed_roles == IF tool_name \in DOMAIN PERMISSION_MATRIX
                         THEN PERMISSION_MATRIX[tool_name] ELSE {}
    IN  IF allowed_roles = {} THEN "admin"
        ELSE CHOOSE r \in allowed_roles :
                 \A q \in allowed_roles : ROLE_HIERARCHY[r] <= ROLE_HIERARCHY[q]

\* check_permission: ok, or the PermissionDeniedError it raises
mut_check_permission_unknown_open(role, tool_name) ==
    [ok |-> role \in Role /\ (tool_name \in DOMAIN PERMISSION_MATRIX
                                 => role \in PERMISSION_MATRIX[tool_name]),
     required_role |-> None, user_role |-> role]

mut_check_permission_open(role, tool_name) ==
    [ok |-> TRUE, required_role |-> None, user_role |-> role]

check_permission(role, tool_name) ==
    LET allowed_roles == IF tool_name \in DOMAIN PERMISSION_MATRIX
                         THEN PERMISSION_MATRIX[tool_name] ELSE {"admin"}
    IN  IF role \notin Role
        THEN [ok |-> FALSE, required_role |-> None, user_role |-> role]
        ELSE IF role \notin allowed_roles
        THEN [ok |-> FALSE,
              required_role |-> get_minimum_required_role(tool_name),
              user_role |-> role]
        ELSE [ok |-> TRUE, required_role |-> None, user_role |-> role]

\* get_allowed_tools
mut_get_allowed_tools_all(role) == DOMAIN PERMISSION_MATRIX

get_allowed_tools(role) ==
    IF role \notin Role THEN {}
    ELSE {tool_name \in DOMAIN PERMISSION_MATRIX : role \in PERMISSION_MATRIX[tool_name]}

\* role strings handed to the permission functions: RoleStrings and a
\* recognised role in another letter case (Role(role) compares values exactly)
RoleInputs == RoleStrings \cup {"ADMIN"}

\* action names handed to check_permission: the matrix keys and names the
\* matrix has no entry for
ToolNameInputs == DOMAIN PERMISSION_MATRIX \cup {"delete_tenant", "export_audit_log"}

(***************************************************************************)
(* tools/: the registered tools and BaseTool.run                           *)
(***************************************************************************)
ALL_TOOLS == {"list_occurrences", "get_occurrence_details",
              "update_occurrence_status", "send_team_notification",
              "generate_report", "search_documentation"}

requires_confirmation ==
    [ list_occurrences         |-> FALSE,
      get_occurrence_details   |-> FALSE,
      update_occurrence_status |-> TRUE,
      send_team_notification   |-> TRUE,
      generate_report          |-> FALSE,
      search_documentation     |-> FALSE ]

\* The keyword arguments of a call, as far as run() depends on them: every
\* value a string ("str_args"), or the message argument not a string
\* ("non_str_message": null or a number in the model's tool call).
KwargKinds == {"str_args", "non_str_message"}

\* What execute() does when it is invoked: returns a ToolResult (success or a
\* business failure), raises a ToolError, or raises another exception; or
\* what the backend does with the request execute() sends it: answers with a
\* status of 400 or more, or cannot be reached.
ExecuteOutcomes == {"ok", "business_failure", "ToolExecutionError", "Exception",
                    "backend_http_error", "backend_unreachable"}

BackendOutcomes == {"backend_http_error", "backend_unreachable"}

\* call_backend_api: the ToolError it raises for what the backend did
call_backend_api(backend) ==
    CASE backend = "backend_unreachable" -> "BackendConnectionError"
      [] backend = "backend_http_error" -> "ToolExecutionError"
      [] OTHER -> None

\* the `except Exception` around the backend call in execute() of every
\* registered tool: whatever was raised leaves as a ToolExecutionError
execute_except(raised) ==
    IF raised = None THEN None ELSE "ToolExecutionError"

\* uuid4(): a value no earlier call returned
mut_uuid4_repeat(n) == 1

uuid4(n) == n + 1

\* ToolResult
ToolResult(success, error_code, has_error, conf_required, action_id, time_set) ==
    [success |-> success,
     data_error_code |-> error_code,
     data_error |-> has_error,
     confirmation_required |-> conf_required,
     confirmation_action_id |-> action_id,
     execution_time_ms_set |-> time_set]

NoResult == ToolResult(FALSE, None, FALSE, FALSE, 0, FALSE)

\* get_confirmation_details: TRUE when it raises.  BaseTool's and
\* UpdateOccurrenceStatusTool's only format their arguments;
\* SendTeamNotificationTool's takes len(message) and message[:100].
get_confirmation_details_raises(tool, kwargs) ==
    tool = "send_team_notification" /\ kwargs = "non_str_message"

\* the guard of the confirmation gate in run()
mut_gate_open(tool, confirmation_received) == FALSE

mut_gate_ignores_flag(tool, confirmation_received) == requires_confirmation[tool]

gate_closed(tool, confirmation_received) ==
    requires_confirmation[tool] /\ ~confirmation_received

\* _request_confirmation: the ToolResult it returns, or the exception it raises
request_confirmation(tool, kwargs, n) ==
    LET action_id == uuid4(n)
    IN  IF get_confirmation_details_raises(tool, kwargs)
        THEN [raised |-> "Exception", result |-> NoResult]
        ELSE [raised |-> None,
              result |-> ToolResult(TRUE, None, FALSE, TRUE, action_id, FALSE)]

\* execute(): the ToolResult it returns, or the exception it raises.  No
\* execute() of a registered tool sets confirmation_required.
execute(tool, outcome) ==
    CASE outcome = "ok" ->
           [raised |-> None, result |-> ToolResult(TRUE, None, FALSE, FALSE, 0, FALSE)]
      [] outcome = "business_failure" ->
           [raised |-> None, result |-> ToolResult(FALSE, None, FALSE, FALSE, 0, FALSE)]
      [] outcome \in BackendOutcomes ->
           [raised |-> execute_except(call_backend_api(outcome)), result |-> NoResult]
      [] OTHER ->
           [raised |-> outcome, result |-> NoResult]

\* the except clauses of run(): what run() gives for what its try block gave
mut_handlers_no_generic(tried) ==
    CASE tried.raised = "ToolExecutionError" ->
           [raised |-> None,
            result |-> ToolResult(FALSE, "TOOL_EXECUTION_ERROR", FALSE, FALSE, 0, TRUE)]
      [] OTHER -> tried

mut_handlers_no_reraise(tried) ==
    CASE tried.raised = None -> tried
      [] tried.raised = "ToolPermissionError" ->
           [raised |-> None,
            result |-> ToolResult(FALSE, "PERMISSION_DENIED", FALSE, FALSE, 0, TRUE)]
      [] tried.raised = "ToolExecutionError" ->
           [raised |-> None,
            result |-> ToolResult(FALSE, "TOOL_EXECUTION_ERROR", FALSE, FALSE, 0, TRUE)]
      [] OTHER ->
           [raised |-> None,
            result |-> ToolResult(FALSE, None, TRUE, FALSE, 0, TRUE)]

run_handlers(tried) ==
    CASE tried.raised = None -> tried
      [] tried.raised = "ToolPermissionError" -> tried
      [] tried.raised = "ToolExecutionError" ->
           [raised |-> None,
            result |-> ToolResult(FALSE, "TOOL_EXECUTION_ERROR", FALSE, FALSE, 0, TRUE)]
      [] tried.raised = "BackendConnectionError" ->
           [raised |-> None,
            result |-> ToolResult(FALSE, "BACKEND_CONNECTION_ERROR", FALSE, FALSE, 0, TRUE)]
      [] OTHER ->
           [raised |-> None,
            result |-> ToolResult(FALSE, None, TRUE, FALSE, 0, TRUE)]

\* the try block of run(): which branch it takes and what the branch gives
run_try(tool, role, confirmation_received, kwargs, outcome, n) ==
    IF ~check_permission(role, tool).ok
    THEN [branch |-> "denied",
          raised |-> "ToolPermissionError", result |-> NoResult]
    ELSE IF gate_closed(tool, confirmation_received)
    THEN [branch |-> "confirmation"] @@ request_confirmation(tool, kwargs, n)
    ELSE LET r == execute(tool, outcome)
         IN  [branch |-> "execute",
              raised |-> r.raised,
              result |-> IF r.raised = None
                         THEN [r.result EXCEPT !.execution_time_ms_set = TRUE]
                         ELSE r.result]

NoCall ==
    [tool |-> None, role |-> None, confirmation_received |-> FALSE,
     kwargs |-> None, outcome |-> None, branch |-> None, tried_raised |-> None,
     raised |-> None, result |-> NoResult,
     execute_before |-> 0, ids_before |-> 0, uuid_before |-> 0]

\* one call of BaseTool.run
Run(tool, role, confirmation_received, kwargs, outcome) ==
    LET tried == run_try(tool, role, confirmation_received, kwargs, outcome, uuid_count)
        given == run_handlers([raised |-> tried.raised, result |-> tried.result])
    IN  /\ call_count < MaxCalls
        /\ tried.branch = "confirmation" => uuid_count < MaxUuid
        /\ call_count' = call_count + 1
        /\ last' = [tool |-> tool, role |-> role,
                    confirmation_received |-> confirmation_received,
                    kwargs |-> kwargs, outcome |-> outcome, branch |-> tried.branch,
                    tried_raised |-> tried.raised,
                    raised |-> given.raised, result |-> given.result,
                    execute_before |-> execute_count,
                    ids_before |-> Len(returned_ids),
                    uuid_before |-> uuid_count]
        /\ execute_count' = IF tried.branch = "execute"
                            THEN execute_count + 1 ELSE execute_count
        /\ uuid_count' = IF tried.branch = "confirmation"
                         THEN uuid_count + 1 ELSE uuid_count
        /\ returned_ids' = IF given.raised = None /\ given.result.confirmation_required
                           THEN Append(returned_ids, given.result.confirmation_action_id)
                           ELSE returned_ids
        /\ UNCHANGED <<chatVars, extVars>>

RunCall ==
    \E tool \in ALL_TOOLS, role \in RoleStrings, confirmation_received \in BOOLEAN,
       kwargs \in KwargKinds, outcome \in ExecuteOutcomes :
        Run(tool, role, confirmation_received, kwargs, outcome)

(***************************************************************************)
(* Request contexts (middleware/tenant.py RequestContext): the callers of  *)
(* the endpoints, each with its user id, its effective tenant and role.    *)
(***************************************************************************)
Users == {"u1", "u2", "u3"}

effective_tenant_id == [u1 |-> "T1", u2 |-> "T1", u3 |-> "T2"]

role_of == [u1 |-> "operador", u2 |-> "admin", u3 |-> "medico"]

(***************************************************************************)
(* models/audit_log.py: rows of ai_action_audit_log                        *)
(***************************************************************************)
NoRow ==
    [tenant_id |-> None, user_id |-> None, action_type |-> None,
     tool_name |-> None, input_params |-> <<>>, output_result |-> None,
     status |-> None, error_message |-> None, severity |-> None]

create_query_log(tenant_id, user_id, input_params, status) ==
    [tenant_id |-> tenant_id, user_id |-> user_id, action_type |-> "ai.query",
     tool_name |-> None, input_params |-> input_params, output_result |-> None,
     status |-> status, error_message |-> None,
     severity |-> IF status = "success" THEN "INFO" ELSE "WARN"]

create_tool_execution_log(tenant_id, user_id, tool_name, input_params, status, severity) ==
    [tenant_id |-> tenant_id, user_id |-> user_id,
     action_type |-> "ai.tool_execution", tool_name |-> tool_name,
     input_params |-> input_params, output_result |-> None,
     status |-> status, error_message |-> None, severity |-> severity]

create_confirmation_log(tenant_id, user_id, tool_name, input_params, confirmed) ==
    [tenant_id |-> tenant_id, user_id |-> user_id,
     action_type |-> "ai.confirmation", tool_name |-> tool_name,
     input_params |-> input_params,
     output_result |-> IF confirmed THEN "confirmed" ELSE "not_confirmed",
     status |-> IF confirmed THEN "success" ELSE "cancelled",
     error_message |-> None, severity |-> "INFO"]

TerminalStatus == {"success", "failed", "cancelled"}

(***************************************************************************)
(* repository/base.py, repository/audit_repo.py                            *)
(***************************************************************************)
\* get_by_id: the row with this id in this tenant, or NoRow.  A request reads
\* the committed table: it has written nothing to the row when it reads.
mut_get_by_id_any_tenant(table, id, tenant_id) ==
    IF id \in DOMAIN table THEN table[id] ELSE NoRow

get_by_id(table, id, tenant_id) ==
    IF id \in DOMAIN table /\ table[id].tenant_id = tenant_id
    THEN table[id] ELSE NoRow

\* update_status: the columns it sets on the row it loaded
update_status(log, status, output_result, error_message) ==
    LET a == [log EXCEPT !.status = status]
        b == IF output_result # None THEN [a EXCEPT !.output_result = output_result] ELSE a
    IN  IF error_message # None
        THEN [b EXCEPT !.error_message = error_message, !.severity = "WARN"]
        ELSE b

\* the UPDATE a flush of update_status sends: the columns that changed on the
\* loaded object, written over the row as it is committed when the UPDATE runs
apply_update(row, loaded, updated) ==
    [c \in DOMAIN row |-> IF updated[c] # loaded[c] THEN updated[c] ELSE row[c]]

(***************************************************************************)
(* routers/chat.py: send_chat_message                                      *)
(***************************************************************************)
\* Messages, as the phrases they are made of
Messages == { <<"Atualizar Status", "da ocorrencia 7">>,
              <<"listar ocorrencias">> }

lower(phrase) ==
    CASE phrase = "Atualizar Status" -> "atualizar status"
      [] OTHER -> phrase

confirmation_keywords ==
    {"atualizar status", "alterar status", "mudar status", "update status", "confirmar"}

mut_requires_confirmation_never(response_text, original_message) == FALSE

\* _requires_confirmation
requires_confirmation_for(response_text, original_message) ==
    \E i \in 1..Len(original_message) :
        lower(original_message[i]) \in confirmation_keywords

\* SimpleAgent.chat through _process_with_agent: the text of the model (or
\* the apology when the call fails); confirmation_required is None either way
agent_chat(message) ==
    [response |-> "reply", confirmation_required |-> None]

NoRequest ==
    [action_id |-> 0, confirmed |-> FALSE, user |-> None,
     target |-> NoRow, response |-> [status_code |-> 0, error |-> None,
                                     message |-> None, result |-> None]]

\* no rejected confirm request is waiting for its response to be sent
Delivered == rejected = NoRequest

\* the statements after create_query_log that can raise (a database error);
\* None: none does.  _process_with_agent catches its own exceptions.
ChatFaults == {None, "get_recent_context", "create_assistant_message", "update_status"}

NoFailedChat ==
    [user |-> None, message |-> <<>>, fault |-> None, query_id |-> 0,
     query_log |-> NoRow, status_code |-> 0]

\* database.py get_db_session around a handler: the writes flushed in the
\* session are committed when the handler returns, rolled back when it raises
get_db_session(table, writes, raised) ==
    IF raised THEN table ELSE table @@ writes

\* one chat request, from its first statement to the end of its session
SendChatMessage(user, message, fault) ==
    LET tenant_id == effective_tenant_id[user]
        agent_result == agent_chat(message)
        asks == /\ fault # "get_recent_context"
                /\ \/ agent_result.confirmation_required # None
                   \/ requires_confirmation_for(agent_result.response, message)
        query_id == uuid4(uuid_count)
        action_id == uuid4(uuid_count + 1)
        pending_id == uuid4(uuid_count + 2)
        created == create_query_log(tenant_id, user, message, "pending")
        query_log == IF fault = None
                     THEN update_status(created, "success", agent_result.response, None)
                     ELSE created
        pending_log == create_tool_execution_log(
                         tenant_id, user, "update_occurrence_status",
                         message, "pending", "WARN")
        writes == IF asks
                  THEN (query_id :> query_log) @@ (pending_id :> pending_log)
                  ELSE (query_id :> query_log)
    IN  /\ Delivered
        /\ Cardinality({id \in DOMAIN db : db[id].action_type = "ai.query"}) < MaxChats
        /\ uuid_count + (IF asks THEN 3 ELSE 1) <= MaxUuid
        /\ uuid_count' = uuid_count + (IF asks THEN 3 ELSE 1)
        /\ db' = get_db_session(db, writes, fault # None)
        /\ chat_returned' = IF asks /\ fault = None
                            THEN chat_returned \cup
                                 {[action_id |-> action_id, user_id |-> user]}
                            ELSE chat_returned
        /\ chat_failed' = IF fault = None THEN chat_failed
                          ELSE [user |-> user, message |-> message, fault |-> fault,
                                query_id |-> query_id, query_log |-> query_log,
                                status_code |-> 500]
        /\ UNCHANGED <<tasks, rejected, row_lock, executions, tool_execute_log>>
        /\ UNCHANGED <<runVars, permVars, ctx_seen, ragVars, chunkVars, celery_task>>
        /\ UNCHANGED <<delay_seen, agent>>

\* the chat requests all of whose statements succeed
Chat ==
    \E user \in Users, message \in Messages :
        SendChatMessage(user, message, None)

\* the chat requests, those that meet a database error included
ChatCall ==
    \E user \in Users, message \in Messages, fault \in ChatFaults :
        SendChatMessage(user, message, fault)

(***************************************************************************)
(* routers/chat.py: confirm_action, one task per request, with its own     *)
(* session (database.py get_db_session): its writes are the task's until   *)
(* the commit that follows the handler's return.                           *)
(***************************************************************************)
\* action ids a caller can send: 0 is a string that is no UUID, the others
\* are UUIDs: those this service has drawn and one it has not
ActionIds == 0..(IF uuid_count < MaxUuid THEN uuid_count + 1 ELSE MaxUuid)

Response(status_code, error, message, result) ==
    [status_code |-> status_code, error |-> error,
     message |-> message, result |-> result]

NoResponse == Response(0, None, None, None)

IdleTask ==
    [pc |-> "idle", action_id |-> 0, confirmed |-> FALSE, user |-> None,
     pending_action |-> NoRow, updated |-> NoRow,
     log_id |-> 0, log |-> NoRow, result |-> None, executed |-> FALSE,
     message |-> None, response |-> NoResponse]

\* the checks between the lookup and the first write: the HTTPException
\* raised, or NoResponse when the request goes on
mut_checks_no_status(action_id, pending_action, user) ==
    IF action_id = 0
    THEN Response(400, "invalid_action_id", "ID da acao invalido", None)
    ELSE IF pending_action = NoRow
    THEN Response(404, "action_not_found", "Acao nao encontrada", None)
    ELSE IF pending_action.user_id # user
    THEN Response(403, "unauthorized", "Voce nao tem permissao", None)
    ELSE NoResponse

mut_checks_no_owner(action_id, pending_action, user) ==
    IF action_id = 0
    THEN Response(400, "invalid_action_id", "ID da acao invalido", None)
    ELSE IF pending_action = NoRow
    THEN Response(404, "action_not_found", "Acao nao encontrada", None)
    ELSE IF pending_action.status # "pending"
    THEN Response(400, "action_not_pending", "Esta acao ja foi processada", None)
    ELSE NoResponse

mut_checks_not_found_for_resolved(action_id, pending_action, user) ==
    IF action_id = 0
    THEN Response(400, "invalid_action_id", "ID da acao invalido", None)
    ELSE IF pending_action = NoRow \/ pending_action.status # "pending"
    THEN Response(404, "action_not_found", "Acao nao encontrada", None)
    ELSE IF pending_action.user_id # user
    THEN Response(403, "unauthorized", "Voce nao tem permissao", None)
    ELSE NoResponse

confirm_checks(action_id, pending_action, user) ==
    IF action_id = 0
    THEN Response(400, "invalid_action_id", "ID da acao invalido", None)
    ELSE IF pending_action = NoRow
    THEN Response(404, "action_not_found", "Acao nao encontrada", None)
    ELSE IF pending_action.status # "pending"
    THEN Response(400, "action_not_pending", "Esta acao ja foi processada", None)
    ELSE IF pending_action.user_id # user
    THEN Response(403, "unauthorized", "Voce nao tem permissao", None)
    ELSE NoResponse

\* _execute_confirmed_action: what it returns or raises, and the calls of a
\* registered tool's execute() it makes
execute_confirmed_action(tool_name, input_params, user_role, tenant_id) ==
    [raised |-> None, result |-> "executed", tool_calls |-> {}]

\* `if request.confirmed:`
mut_takes_execute_branch_always(confirmed) == TRUE

takes_execute_branch(confirmed) == confirmed

\* two request tasks: a slot is free again when its request has ended, and
\* a request takes the first free slot
Slots == {1, 2}

Busy(t) == tasks[t].pc \notin {"idle", "done"}

\* A request arrives: UUID(action_id), get_by_id, the three checks.  A
\* rejected request ends there: the HTTPException is its response and its
\* session rolls back, having written nothing.  The row the id names,
\* whatever its tenant, is kept with the response.
ConfirmReject(action_id, confirmed, user) ==
    LET pending_action == get_by_id(db, action_id, effective_tenant_id[user])
        response == confirm_checks(action_id, pending_action, user)
    IN  /\ Delivered
        /\ response # NoResponse
        /\ rejected' = [action_id |-> action_id, confirmed |-> confirmed,
                        user |-> user,
                        target |-> IF action_id \in DOMAIN db
                                   THEN db[action_id] ELSE NoRow,
                        response |-> response]
        /\ UNCHANGED <<db, tasks, row_lock, chat_returned, executions,
                       tool_execute_log, uuid_count>>
        /\ UNCHANGED <<runVars, extVars>>

\* The response of the rejected request is sent and the request is over.
\* (The steps of the other requests are taken with no rejection waiting to
\* be sent: a rejected request has changed nothing they read.)
RespondRejected ==
    /\ rejected # NoRequest
    /\ rejected' = NoRequest
    /\ UNCHANGED <<db, tasks, row_lock, chat_returned, executions,
                   tool_execute_log, uuid_count>>
    /\ UNCHANGED <<runVars, extVars>>

\* A request that passes the checks goes on as a task of its own.
ConfirmStart(t, action_id, confirmed, user) ==
    LET pending_action == get_by_id(db, action_id, effective_tenant_id[user])
        response == confirm_checks(action_id, pending_action, user)
    IN  /\ Delivered
        /\ ~Busy(t)
        /\ \A o \in Slots : o < t => Busy(o)
        /\ response = NoResponse
        /\ tasks' = [tasks EXCEPT ![t] =
                       [IdleTask EXCEPT
                          !.pc = "checked", !.action_id = action_id,
                          !.confirmed = confirmed, !.user = user,
                          !.pending_action = pending_action]]
        /\ UNCHANGED <<db, rejected, row_lock, chat_returned, executions,
                       tool_execute_log, uuid_count>>
        /\ UNCHANGED <<runVars, extVars>>

\* create_confirmation_log: the INSERT, flushed in the task's session
ConfirmLog(t) ==
    LET task == tasks[t]
    IN  /\ Delivered
        /\ task.pc = "checked"
        /\ uuid_count < MaxUuid
        /\ uuid_count' = uuid_count + 1
        /\ tasks' = [tasks EXCEPT ![t] =
                       [task EXCEPT
                          !.pc = "logged",
                          !.log_id = uuid4(uuid_count),
                          !.log = create_confirmation_log(
                                      effective_tenant_id[task.user], task.user,
                                      task.pending_action.tool_name,
                                      task.pending_action.input_params,
                                      task.confirmed)]]
        /\ UNCHANGED <<db, rejected, row_lock, chat_returned, executions,
                       tool_execute_log>>
        /\ UNCHANGED <<runVars, extVars>>

\* the branch taken after the log: _execute_confirmed_action and the columns
\* update_status sets (SUCCESS, or FAILED when the execution raised), or the
\* columns of the cancellation
ConfirmExecute(t) ==
    LET task == tasks[t]
        done == execute_confirmed_action(
                    task.pending_action.tool_name, task.pending_action.input_params,
                    role_of[task.user], effective_tenant_id[task.user])
    IN  /\ Delivered
        /\ task.pc = "logged"
        /\ IF takes_execute_branch(task.confirmed)
           THEN /\ executions' = [executions EXCEPT ![task.action_id] = @ + 1]
                /\ tool_execute_log' = tool_execute_log \cup done.tool_calls
                /\ tasks' = [tasks EXCEPT ![t] =
                     IF done.raised = None
                     THEN [task EXCEPT
                             !.pc = "executed", !.executed = TRUE,
                             !.result = done.result,
                             !.message = "Acao executada com sucesso",
                             !.updated = update_status(task.pending_action,
                                             "success", done.result, None)]
                     ELSE [task EXCEPT
                             !.pc = "executed", !.executed = TRUE,
                             !.message = "Erro ao executar acao",
                             !.updated = update_status(task.pending_action,
                                             "failed", None, done.raised)]]
           ELSE /\ tasks' = [tasks EXCEPT ![t] =
                     [task EXCEPT
                        !.pc = "executed",
                        !.message = "Acao cancelada",
                        !.updated = update_status(task.pending_action,
                                        "cancelled", None, None)]]
                /\ UNCHANGED <<executions, tool_execute_log>>
        /\ UNCHANGED <<db, rejected, row_lock, chat_returned, uuid_count>>
        /\ UNCHANGED <<runVars, extVars>>

\* the flush of update_status: the UPDATE takes the row's lock, and waits
\* while another session that updated the row has not committed
ConfirmFlush(t) ==
    LET task == tasks[t]
    IN  /\ Delivered
        /\ task.pc = "executed"
        /\ row_lock[task.action_id] = 0
        /\ row_lock' = [row_lock EXCEPT ![task.action_id] = t]
        /\ tasks' = [tasks EXCEPT ![t] = [task EXCEPT !.pc = "flushed"]]
        /\ UNCHANGED <<db, rejected, chat_returned, executions,
                       tool_execute_log, uuid_count>>
        /\ UNCHANGED <<runVars, extVars>>

\* the handler returns and get_db_session commits: the INSERT and the UPDATE
\* become visible and the lock is released
ConfirmCommit(t) ==
    LET task == tasks[t]
    IN  /\ Delivered
        /\ task.pc = "flushed"
        /\ db' = [db EXCEPT ![task.action_id] =
                    apply_update(@, task.pending_action, task.updated)]
                 @@ (task.log_id :> task.log)
        /\ row_lock' = [row_lock EXCEPT ![task.action_id] = 0]
        /\ tasks' = [tasks EXCEPT ![t] =
                       [task EXCEPT
                          !.pc = "done",
                          !.response = Response(200, None, task.message, task.result)]]
        /\ UNCHANGED <<rejected, chat_returned, executions,
                       tool_execute_log, uuid_count>>
        /\ UNCHANGED <<runVars, extVars>>

NoneInFlight == \A o \in Slots : ~Busy(o)

Reject ==
    \E action_id \in ActionIds, confirmed \in BOOLEAN, user \in Users :
        ConfirmReject(action_id, confirmed, user)

Start ==
    \E t \in Slots, action_id \in ActionIds, confirmed \in BOOLEAN, user \in Users :
        ConfirmStart(t, action_id, confirmed, user)

\* the same requests, arriving when no other confirm request is in flight
RejectAlone ==
    \E action_id \in ActionIds, confirmed \in BOOLEAN, user \in Users :
        NoneInFlight /\ ConfirmReject(action_id, confirmed, user)

StartAlone ==
    \E t \in Slots, action_id \in ActionIds, confirmed \in BOOLEAN, user \in Users :
        NoneInFlight /\ ConfirmStart(t, action_id, confirmed, user)

Log == \E t \in Slots : ConfirmLog(t)

Execute == \E t \in Slots : ConfirmExecute(t)

Flush == \E t \in Slots : ConfirmFlush(t)

Commit == \E t \in Slots : ConfirmCommit(t)

(***************************************************************************)
(* middleware/tenant.py: create_tenant_context                             *)
(***************************************************************************)
\* strings UUID(value) accepts
UuidStrings == {"T1", "T2", "T3"}

\* tenant_id of the JWT claims ("" when the token carries none)
ClaimTenantIds == {"T1", "T2", ""}

\* X-Tenant-Context header: absent (None), empty, a UUID, or another string
HeaderValues == {None, "", "T1", "T3", "not-a-uuid"}

validate_uuid(value) == value \in UuidStrings

\* Python truth value of an Optional[str]
truthy(value) == value # None /\ value # ""

TenantContext(tenant_id, is_super_admin, effective) ==
    [tenant_id |-> tenant_id, is_super_admin |-> is_super_admin,
     effective_tenant_id |-> effective]

NoContext == TenantContext(None, FALSE, None)

mut_create_tenant_context_no_admin_check(user_claims, header_tenant_id) ==
    IF truthy(header_tenant_id) /\ ~validate_uuid(header_tenant_id)
    THEN [raised |-> "InvalidTenantIdError", context |-> NoContext]
    ELSE [raised |-> None,
          context |-> TenantContext(user_claims.tenant_id, user_claims.is_super_admin,
                                    IF truthy(header_tenant_id) THEN header_tenant_id
                                    ELSE user_claims.tenant_id)]

mut_create_tenant_context_ignores_header(user_claims, header_tenant_id) ==
    IF truthy(header_tenant_id) /\ ~user_claims.is_super_admin
    THEN [raised |-> "TenantContextDeniedError", context |-> NoContext]
    ELSE [raised |-> None,
          context |-> TenantContext(user_claims.tenant_id, user_claims.is_super_admin,
                                    user_claims.tenant_id)]

create_tenant_context(user_claims, header_tenant_id) ==
    IF truthy(header_tenant_id)
    THEN IF ~user_claims.is_super_admin
         THEN [raised |-> "TenantContextDeniedError", context |-> NoContext]
         ELSE IF ~validate_uuid(header_tenant_id)
         THEN [raised |-> "InvalidTenantIdError", context |-> NoContext]
         ELSE [raised |-> None,
               context |-> TenantContext(user_claims.tenant_id,
                                         user_claims.is_super_admin,
                                         header_tenant_id)]
    ELSE [raised |-> None,
          context |-> TenantContext(user_claims.tenant_id,
                                    user_claims.is_super_admin,
                                    user_claims.tenant_id)]

\* one call of create_tenant_context
CreateTenantContext(tenant_id, is_super_admin, header_tenant_id) ==
    LET user_claims == [tenant_id |-> tenant_id, is_super_admin |-> is_super_admin]
        given == create_tenant_context(user_claims, header_tenant_id)
    IN  /\ Cardinality(ctx_seen) < MaxCtxSeen
        /\ ctx_seen' = ctx_seen \cup
              {[user_claims |-> user_claims, header_tenant_id |-> header_tenant_id,
                raised |-> given.raised, context |-> given.context]}
        /\ UNCHANGED <<permVars, ragVars, baseVars, moreVars>>

CreateTenantContextCall ==
    \E tenant_id \in ClaimTenantIds, is_super_admin \in BOOLEAN,
       header_tenant_id \in HeaderValues :
        CreateTenantContext(tenant_id, is_super_admin, header_tenant_id)

(***************************************************************************)
(* rag/ingestion.py: chunking and node creation                            *)
(***************************************************************************)
Max2(a, b) == IF a >= b THEN a ELSE b
Min2(a, b) == IF a <= b THEN a ELSE b

\* text[a:b] of Python, for 0 <= a
slice(text, a, b) == SubSeq(text, a + 1, Min2(b, Len(text)))

Whitespace == {" ", "\n"}

RECURSIVE lstrip(_)
lstrip(text) ==
    IF text # <<>> /\ Head(text) \in Whitespace THEN lstrip(Tail(text)) ELSE text

RECURSIVE rstrip(_)
rstrip(text) ==
    IF text # <<>> /\ text[Len(text)] \in Whitespace
    THEN rstrip(SubSeq(text, 1, Len(text) - 1)) ELSE text

strip(text) == rstrip(lstrip(text))

\* text.rfind(marker): 0-based index of the last occurrence, -1 if none
rfind(text, marker) ==
    LET at == {i \in 1..Len(text) : text[i] = marker}
    IN  IF at = {} THEN -1 ELSE (CHOOSE i \in at : \A j \in at : j <= i) - 1

\* the first marker of the list that occurs in search_text decides
RECURSIVE last_of_first_marker(_, _)
last_of_first_marker(search_text, markers) ==
    IF markers = <<>> THEN -1
    ELSE IF rfind(search_text, Head(markers)) # -1
         THEN rfind(search_text, Head(markers))
         ELSE last_of_first_marker(search_text, Tail(markers))

find_sentence_boundary(text, position) ==
    LET search_start == Max2(0, position - SentenceSearchWindow)
        search_text == slice(text, search_start, position)
        sentence == last_of_first_marker(search_text, <<".", "!", "?", "\n">>)
        clause == last_of_first_marker(search_text, <<",", ";", ":">>)
        last_space == rfind(search_text, " ")
    IN  IF sentence # -1 THEN search_start + sentence + 1
        ELSE IF clause # -1 THEN search_start + clause + 1
        ELSE IF last_space # -1 THEN search_start + last_space + 1
        ELSE position

\* one iteration of the while loop of _chunk_text: the chunks and the start
\* it leaves
mut_chunk_iteration_skips(text, start, chunks, size, overlap) ==
    LET end0 == start + size
        boundary == find_sentence_boundary(text, end0)
        end == IF end0 < Len(text) /\ boundary > start THEN boundary ELSE end0
        chunk == strip(slice(text, start, end))
    IN  [chunks |-> IF chunk # <<>> THEN Append(chunks, chunk) ELSE chunks,
         end |-> end,
         start |-> end + 1]

chunk_iteration(text, start, chunks, size, overlap) ==
    LET end0 == start + size
        boundary == find_sentence_boundary(text, end0)
        end == IF end0 < Len(text) /\ boundary > start THEN boundary ELSE end0
        chunk == strip(slice(text, start, end))
    IN  [chunks |-> IF chunk # <<>> THEN Append(chunks, chunk) ELSE chunks,
         end |-> end,
         start |-> Max2(0, end - overlap)]

\* the while loop of _chunk_text; ended = FALSE when it is still running
\* after MaxChunkLoop iterations.  (Each iteration's values are bound
\* through a singleton set, so that they are computed once.)
RECURSIVE chunk_loop(_, _, _, _, _, _)
chunk_loop(text, start, chunks, n, size, overlap) ==
    IF ~(start < Len(text)) THEN [ended |-> TRUE, chunks |-> chunks]
    ELSE IF n = 0 THEN [ended |-> FALSE, chunks |-> chunks]
    ELSE CHOOSE r \in {chunk_loop(text, it.start, it.chunks, n - 1, size, overlap) :
                          it \in {chunk_iteration(text, start, chunks, size, overlap)}} :
             TRUE

chunk_text_stripped(text, size, overlap) ==
    IF Len(text) <= size THEN [ended |-> TRUE, chunks |-> <<text>>]
    ELSE LET r == chunk_loop(text, 0, <<>>, MaxChunkLoop, size, overlap)
         IN  [ended |-> r.ended,
              chunks |-> IF r.chunks = <<>> THEN <<text>> ELSE r.chunks]

\* _chunk_text of a pipeline made with the given chunk_size and chunk_overlap
chunk_text_with(content, size, overlap) ==
    CHOOSE r \in {chunk_text_stripped(text, size, overlap) :
                     text \in {strip(content)}} : TRUE

chunk_text(content) == chunk_text_with(content, chunk_size, chunk_overlap)

\* Python dict merge {**low, **high}: the keys of high win
merge(low, high) == high @@ low

\* additional_metadata or {}
EmptyDict == [k \in {} |-> None]

required_fields == {"tenant_id", "doc_type", "source_path"}

\* the loop of create_nodes_from_text over the chunks: one TextNode per
\* chunk, with ids n+1, n+2, ...
nodes_of_chunks(chunks, enriched_metadata, n) ==
    [i \in 1..Len(chunks) |->
        [id |-> n + i,
         text |-> chunks[i],
         metadata |-> merge(enriched_metadata,
                            [chunk_index |-> i - 1, total_chunks |-> Len(chunks)])]]

mut_create_nodes_no_validation(content, metadata, n) ==
    IF strip(content) = <<>>
    THEN [ended |-> TRUE, raised |-> None, nodes |-> <<>>, chunked |-> FALSE]
    ELSE CHOOSE made \in
           {[ended |-> chunked.ended, raised |-> None, chunked |-> TRUE,
             nodes |-> nodes_of_chunks(chunked.chunks,
                                       merge(metadata, [indexed_at |-> "now"]), n)] :
              chunked \in {chunk_text(content)}} : TRUE

\* create_nodes_from_text: what it raises and the nodes it returns; ended is
\* FALSE when its chunking loop does not end
create_nodes_from_text(content, metadata, n) ==
    IF strip(content) = <<>>
    THEN [ended |-> TRUE, raised |-> None, nodes |-> <<>>, chunked |-> FALSE]
    ELSE IF \E field \in required_fields : field \notin DOMAIN metadata
    THEN [ended |-> TRUE, raised |-> "DocumentIngestionError", nodes |-> <<>>,
          chunked |-> FALSE]
    ELSE CHOOSE made \in
           {[ended |-> chunked.ended, raised |-> None, chunked |-> TRUE,
             nodes |-> nodes_of_chunks(chunked.chunks,
                                       merge(metadata, [indexed_at |-> "now"]), n)] :
              chunked \in {chunk_text(content)}} : TRUE

mut_ingest_metadata_wrong_tenant(tenant_id, doc_type, source_path, additional_metadata) ==
    merge([tenant_id |-> "A", doc_type |-> doc_type, source_path |-> source_path],
          additional_metadata)

\* the metadata dict the ingest_* functions build
ingest_metadata(tenant_id, doc_type, source_path, additional_metadata) ==
    merge([tenant_id |-> tenant_id, doc_type |-> doc_type, source_path |-> source_path],
          additional_metadata)

ingest_markdown(content, tenant_id, source_path, additional_metadata, n) ==
    create_nodes_from_text(
        content, ingest_metadata(tenant_id, "markdown", source_path, additional_metadata), n)

ingest_text(content, tenant_id, source_path, doc_type, additional_metadata, n) ==
    create_nodes_from_text(
        content, ingest_metadata(tenant_id, doc_type, source_path, additional_metadata), n)

\* _extract_pdf_text: the page texts that are not empty, joined by a blank line
RECURSIVE extract_pdf_text(_)
extract_pdf_text(pages) ==
    IF pages = <<>> THEN <<>>
    ELSE LET rest == extract_pdf_text(Tail(pages))
         IN  IF Head(pages) = <<>> THEN rest
             ELSE IF \A i \in 1..Len(Tail(pages)) : Tail(pages)[i] = <<>> THEN Head(pages)
             ELSE Head(pages) \o <<"\n", "\n">> \o rest

ingest_pdf(file_content, tenant_id, source_path, additional_metadata, n) ==
    LET text == extract_pdf_text(file_content)
    IN  IF text = <<>>
        THEN [ended |-> TRUE, raised |-> "DocumentIngestionError", nodes |-> <<>>,
              chunked |-> FALSE]
        ELSE create_nodes_from_text(
                 text, ingest_metadata(tenant_id, "pdf", source_path, additional_metadata), n)

\* the ingest function for a document kind
ingest(kind, content, tenant_id, source_path, additional_metadata, n) ==
    CASE kind = "markdown" ->
           ingest_markdown(content, tenant_id, source_path, additional_metadata, n)
      [] kind = "pdf" ->
           ingest_pdf(content, tenant_id, source_path, additional_metadata, n)
      [] OTHER ->
           ingest_text(content, tenant_id, source_path, kind, additional_metadata, n)

(***************************************************************************)
(* rag/vector_store.py                                                     *)
(***************************************************************************)
\* the points a Qdrant filter on tenant_id matches
mut_tenant_matches_all(stored, tenant_id) == stored

tenant_matches(stored, tenant_id) ==
    {p \in stored : p.metadata.tenant_id = tenant_id}

\* the points delete_by_source leaves
mut_delete_by_source_whole_tenant(stored, tenant_id, source_path) ==
    {p \in stored : p.metadata.tenant_id # tenant_id}

delete_by_source(stored, tenant_id, source_path) ==
    {p \in stored : ~(p.metadata.tenant_id = tenant_id
                       /\ p.metadata.source_path = source_path)}

\* add_nodes
add_nodes(stored, nodes) == stored \cup {nodes[i] : i \in 1..Len(nodes)}

node_ids(nodes) == {nodes[i].id : i \in 1..Len(nodes)}

point_ids(stored) == {p.id : p \in stored}

(***************************************************************************)
(* Operations on the document index                                        *)
(***************************************************************************)
RagTenants == {"A", "B"}

TextShort == <<"a", "b">>
TextLong == <<"a", "b", " ", "c", "d">>

\* the documents handed to the index: source path, document type, and the
\* content (the text of a markdown or text document, the page texts of a PDF)
Documents ==
    { [source_path |-> "s1", doc_type |-> "markdown", content |-> TextLong],
      [source_path |-> "s1", doc_type |-> "markdown", content |-> TextShort],
      [source_path |-> "s2", doc_type |-> "pdf",
       content |-> <<TextShort, <<>>, TextShort>>],
      [source_path |-> "s2", doc_type |-> "pdf", content |-> <<>>],
      [source_path |-> "s2", doc_type |-> "text", content |-> <<" ">>],
      [source_path |-> "s2", doc_type |-> "text", content |-> TextShort] }

RagSources == {doc.source_path : doc \in Documents}

\* additional_metadata: none, or the caller's keys with indexed_by added by
\* the indexing task
AdditionalMetadataValues ==
    {EmptyDict, [indexed_by |-> "u1", tenant_id |-> "B"]}

NoRagOp ==
    [op |-> None, tenant_id |-> None, source_path |-> None, doc_type |-> None,
     raised |-> None, node_ids |-> {}, removed |-> {}, limit |-> 0, fails |-> None,
     hits |-> <<>>, status |-> None, successful |-> 0, failed |-> 0]

\* record what an ingest made
Provenance(nodes, tenant_id) ==
    [id \in node_ids(nodes) |-> tenant_id] @@ ingested_for

\* one call of ingest_markdown, ingest_text or ingest_pdf
Ingest(doc, tenant_id, additional_metadata) ==
    \E made \in {ingest(doc.doc_type, doc.content, tenant_id, doc.source_path,
                        additional_metadata, node_seq)} :
        /\ made.ended
        /\ node_seq + Len(made.nodes) <= MaxNodes
        /\ node_seq' = node_seq + Len(made.nodes)
        /\ points' = add_nodes(points, made.nodes)
        /\ collection_exists' = (collection_exists \/ made.nodes # <<>>)
        /\ ingested_for' = Provenance(made.nodes, tenant_id)
        /\ rag_last' = [NoRagOp EXCEPT
              !.op = "ingest", !.tenant_id = tenant_id,
              !.source_path = doc.source_path, !.doc_type = doc.doc_type,
              !.raised = made.raised, !.node_ids = node_ids(made.nodes)]
        /\ UNCHANGED <<permVars, ctx_seen, baseVars, moreVars>>

\* one call of VectorStoreManager.delete_by_source
DeleteBySource(tenant_id, source_path) ==
    /\ points' = IF collection_exists
                 THEN delete_by_source(points, tenant_id, source_path) ELSE points
    /\ rag_last' = [NoRagOp EXCEPT
          !.op = "delete_by_source", !.tenant_id = tenant_id,
          !.source_path = source_path,
          !.raised = IF collection_exists THEN None ELSE "VectorStoreError",
          !.removed = IF collection_exists
                      THEN point_ids(points)
                             \ point_ids(delete_by_source(points, tenant_id, source_path))
                      ELSE {}]
    /\ UNCHANGED <<collection_exists, node_seq, ingested_for>>
    /\ UNCHANGED <<permVars, ctx_seen, baseVars, moreVars>>

\* one call of DocumentIngestionPipeline.reindex_document
ReindexDocument(doc, tenant_id, additional_metadata) ==
    \E made \in {ingest(doc.doc_type, doc.content, tenant_id, doc.source_path,
                        additional_metadata, node_seq)} :
    LET kept == delete_by_source(points, tenant_id, doc.source_path)
        called == [NoRagOp EXCEPT
                     !.op = "reindex", !.tenant_id = tenant_id,
                     !.source_path = doc.source_path, !.doc_type = doc.doc_type]
    IN  /\ made.ended
        /\ node_seq + Len(made.nodes) <= MaxNodes
        /\ IF ~collection_exists
           THEN /\ rag_last' = [called EXCEPT !.raised = "VectorStoreError"]
                /\ UNCHANGED <<points, collection_exists, node_seq, ingested_for>>
           ELSE /\ node_seq' = node_seq + Len(made.nodes)
                /\ points' = add_nodes(kept, made.nodes)
                /\ ingested_for' = Provenance(made.nodes, tenant_id)
                /\ rag_last' = [called EXCEPT
                      !.raised = made.raised,
                      !.node_ids = node_ids(made.nodes),
                      !.removed = point_ids(points) \ point_ids(kept)]
                /\ UNCHANGED collection_exists
        /\ UNCHANGED <<permVars, ctx_seen, baseVars, moreVars>>

SearchLimits == {1, 5}

\* similarity scores in hundredths
ScoreValues == {60, 70, 80}

\* what makes a retrieval fail: nothing, the embedding model, the index
FailureValues == {None, "embedding", "index"}

\* a hit as the index returns it
hit_of(p, scores) ==
    [id |-> p.id, score |-> scores[p.id], text |-> p.text, metadata |-> p.metadata]

\* the answers of the index to a similarity search: the k best matches, best
\* first (the order among equal scores is the index's)
RECURSIVE ranked(_, _, _)
ranked(matching, scores, k) ==
    IF k = 0 \/ matching = {} THEN {<<>>}
    ELSE UNION {{<<hit_of(p, scores)>> \o rest :
                    rest \in ranked(matching \ {p}, scores, k - 1)} :
                  p \in {best \in matching :
                           \A q \in matching : scores[q.id] <= scores[best.id]}}

\* every answer the index can give to a search under the tenant filter
answers(stored, tenant_id, k) ==
    UNION {ranked(tenant_matches(stored, tenant_id), scores, k) :
             scores \in [point_ids(tenant_matches(stored, tenant_id)) -> ScoreValues]}

\* the list comprehension of _retrieve_context
score_filter(nodes, similarity_threshold) ==
    LET clears(node) == node.score >= similarity_threshold
    IN  SelectSeq(nodes, clears)

\* one call of RAGQueryEngine.search, through VectorStoreManager.search: the
\* limit best matches under the tenant filter
VectorSearch(tenant_id, limit, fails, results) ==
    LET failed == fails # None \/ ~collection_exists
    IN  /\ failed \/ results \in answers(points, tenant_id, limit)
        /\ rag_last' = [NoRagOp EXCEPT
              !.op = "search", !.tenant_id = tenant_id, !.limit = limit,
              !.fails = fails,
              !.raised = IF failed THEN "RAGQueryError" ELSE None,
              !.hits = IF failed THEN <<>> ELSE results]
        /\ UNCHANGED <<points, collection_exists, node_seq, ingested_for>>
        /\ UNCHANGED <<permVars, ctx_seen, baseVars, moreVars>>

\* one call of RAGQueryEngine._retrieve_context for an engine of the tenant:
\* the retriever's matches under the tenant filter that clear the threshold
DEFAULT_TOP_K == 5

DEFAULT_SIMILARITY_THRESHOLD == 70

RetrieveContext(tenant_id, top_k, similarity_threshold, fails, nodes) ==
    /\ fails # None \/ nodes \in answers(points, tenant_id, top_k)
    /\ collection_exists' = (collection_exists \/ fails # "index")
    /\ rag_last' = [NoRagOp EXCEPT
          !.op = "retrieve_context", !.tenant_id = tenant_id, !.limit = top_k,
          !.fails = fails,
          !.hits = IF fails # None THEN <<>>
                   ELSE score_filter(nodes, similarity_threshold)]
    /\ UNCHANGED <<points, node_seq, ingested_for>>
    /\ UNCHANGED <<permVars, ctx_seen, baseVars, moreVars>>

IngestCall ==
    \E doc \in Documents, tenant_id \in RagTenants,
       additional_metadata \in AdditionalMetadataValues :
        Ingest(doc, tenant_id, additional_metadata)

DeleteCall ==
    \E tenant_id \in RagTenants, source_path \in RagSources :
        DeleteBySource(tenant_id, source_path)

ReindexCall ==
    \E doc \in Documents, tenant_id \in RagTenants,
       additional_metadata \in AdditionalMetadataValues :
        ReindexDocument(doc, tenant_id, additional_metadata)

\* a search that fails gets no answer from the index
SearchCall ==
    \E tenant_id \in RagTenants, limit \in SearchLimits, fails \in FailureValues :
        \E results \in IF fails = None THEN answers(points, tenant_id, limit)
                        ELSE {<<>>} :
            VectorSearch(tenant_id, limit, fails, results)

RetrieveCall ==
    \E tenant_id \in RagTenants, top_k \in SearchLimits, fails \in FailureValues :
        \E nodes \in IF fails = None THEN answers(points, tenant_id, top_k)
                      ELSE {<<>>} :
            RetrieveContext(tenant_id, top_k, DEFAULT_SIMILARITY_THRESHOLD, fails, nodes)

(***************************************************************************)
(* celery_app/tasks/indexing.py: batch_index_documents                     *)
(***************************************************************************)
MaxBatch == 2     \* documents in one batch

\* the batches of documents handed to batch_index_documents
Batches ==
    UNION {[1..len -> Documents] : len \in 1..MaxBatch}

\* the results dict and the index before the loop over the documents
batch_start(stored, n) ==
    [ended |-> TRUE, stored |-> stored, n |-> n, nodes |-> <<>>,
     successful |-> 0, failed |-> 0]

\* the body of the loop for one document: the ingest made, or its exception
\* caught and counted
batch_step(acc, made) ==
    IF made.raised # None
    THEN [acc EXCEPT !.failed = @ + 1]
    ELSE [acc EXCEPT !.ended = @ /\ made.ended,
                     !.stored = add_nodes(@, made.nodes),
                     !.n = @ + Len(made.nodes),
                     !.nodes = @ \o made.nodes,
                     !.successful = @ + 1]

RECURSIVE batch_loop(_, _, _)
batch_loop(documents, tenant_id, acc) ==
    IF documents = <<>> THEN acc
    ELSE CHOOSE r \in
           {batch_loop(Tail(documents), tenant_id, batch_step(acc, made)) :
              made \in {ingest(Head(documents).doc_type, Head(documents).content,
                               tenant_id, Head(documents).source_path,
                               [indexed_by |-> "u1"], acc.n)}} : TRUE

\* results["status"] at the end of the task
batch_status(successful, failed) ==
    IF failed > 0 THEN (IF successful > 0 THEN "partial" ELSE "failed")
    ELSE "success"

\* one run of the task batch_index_documents
BatchIndexDocuments(documents, tenant_id) ==
    \E done \in {batch_loop(documents, tenant_id, batch_start(points, node_seq))} :
        /\ done.ended
        /\ done.n <= MaxNodes
        /\ node_seq' = done.n
        /\ points' = done.stored
        /\ collection_exists' = (collection_exists \/ done.nodes # <<>>)
        /\ ingested_for' = Provenance(done.nodes, tenant_id)
        /\ rag_last' = [NoRagOp EXCEPT
              !.op = "batch_index", !.tenant_id = tenant_id,
              !.raised = None, !.node_ids = node_ids(done.nodes),
              !.status = batch_status(done.successful, done.failed),
              !.successful = done.successful, !.failed = done.failed]
        /\ UNCHANGED <<permVars, ctx_seen, baseVars, moreVars>>

BatchIndexCall ==
    \E documents \in Batches, tenant_id \in RagTenants :
        BatchIndexDocuments(documents, tenant_id)

(***************************************************************************)
(* celery_app/tasks/base.py, query.py, indexing.py: AuditedTask            *)
(***************************************************************************)
MAX_RETRIES == 3

\* the tasks whose body catches Exception and calls self.retry itself
QueryTasks == {"process_chat_message", "process_rag_query", "execute_tool"}

\* the tasks whose body lets the exception out (indexing tasks log and re-raise)
RaisingTasks == {"index_markdown_document", "health_check_task"}

TaskNames == QueryTasks \cup RaisingTasks

\* max_retries of the task: the decorator's option, else AuditedTask's
max_retries(name) ==
    CASE name = "process_chat_message" -> MAX_RETRIES
      [] name = "process_rag_query" -> MAX_RETRIES - 1
      [] name = "execute_tool" -> MAX_RETRIES - 1
      [] OTHER -> MAX_RETRIES

autoretry_for == {"ValueError", "TypeError", "KeyError", "PermissionError",
                  "PermissionDeniedError", "ConnectionError"}

dont_autoretry_for == {"ValueError", "TypeError", "KeyError", "PermissionError"}

\* what the work of one attempt raises (None: nothing)
ExcValues == autoretry_for \cup {None}

\* the body of a task for one attempt whose work raises exc: what leaves run()
run_task(name, retries, exc) ==
    IF exc = None THEN [kind |-> "return", status |-> "success", exc |-> None]
    ELSE IF name \in QueryTasks
    THEN IF name = "execute_tool" /\ exc = "PermissionDeniedError"
         THEN [kind |-> "return", status |-> "failed", exc |-> None]
         ELSE IF retries < max_retries(name)
         THEN [kind |-> "Retry", status |-> None, exc |-> exc]
         ELSE [kind |-> "return", status |-> "failed", exc |-> None]
    ELSE [kind |-> "raise", status |-> None, exc |-> exc]

\* the wrapper autoretry_for puts around run(): Retry and the exceptions of
\* dont_autoretry_for pass, the others become a retry while retries remain
autoretry(name, retries, out) ==
    IF out.kind = "raise" /\ out.exc \notin dont_autoretry_for
                          /\ out.exc \in autoretry_for
                          /\ retries < max_retries(name)
    THEN [out EXCEPT !.kind = "Retry"]
    ELSE out

RETRY_BACKOFF_DELAYS == <<10, 30, 60>>

\* a delay that is always the first of the sequence
mut_get_retry_delay_first(retry_count) == RETRY_BACKOFF_DELAYS[1]

\* _get_retry_delay (retry_count is 0-indexed, the sequence 1-indexed here)
get_retry_delay(retry_count) ==
    IF retry_count < Len(RETRY_BACKOFF_DELAYS)
    THEN RETRY_BACKOFF_DELAYS[retry_count + 1]
    ELSE RETRY_BACKOFF_DELAYS[Len(RETRY_BACKOFF_DELAYS)]

\* the countdown retry() hands to Celery: no caller passes countdown or eta
retry_countdown(retries) == get_retry_delay(retries)

NoTask ==
    [name |-> None, pc |-> "idle", retries |-> 0, attempts |-> 0,
     failed_attempts |-> 0, exc |-> None, audit_status |-> None,
     dead_letter |-> FALSE, state |-> None, countdowns |-> <<>>,
     severity |-> None]

\* apply_async: the task message is queued
ApplyAsync(name) ==
    /\ celery_task.pc \in {"idle", "done"}
    /\ celery_task' = [NoTask EXCEPT !.name = name, !.pc = "queued",
                                     !.state = "PENDING"]
    /\ UNCHANGED <<baseVars, permVars, ctx_seen, ragVars, chunkVars, chat_failed>>
    /\ UNCHANGED <<delay_seen, agent>>

ApplyAsyncCall == \E name \in TaskNames : ApplyAsync(name)

\* one attempt in the worker: before_start, the body, then on_success,
\* on_retry or on_failure (with _handle_dead_letter)
TaskAttempt(exc) ==
    /\ celery_task.pc = "queued"
    /\ \E out \in {autoretry(celery_task.name, celery_task.retries,
                     run_task(celery_task.name, celery_task.retries, exc))} :
         celery_task' = [celery_task EXCEPT
            !.attempts = @ + 1,
            !.failed_attempts = IF exc = None THEN @ ELSE @ + 1,
            !.exc = exc,
            !.retries = IF out.kind = "Retry" THEN @ + 1 ELSE @,
            !.countdowns = IF out.kind = "Retry"
                           THEN Append(@, retry_countdown(celery_task.retries))
                           ELSE @,
            !.pc = IF out.kind = "Retry" THEN "queued" ELSE "done",
            !.audit_status = CASE out.kind = "Retry" -> "retrying"
                               [] out.kind = "return" -> "success"
                               [] OTHER -> "failed",
            !.severity = CASE out.kind = "Retry" -> "WARN"
                           [] out.kind = "return" -> "INFO"
                           [] OTHER -> "CRITICAL",
            !.dead_letter = (out.kind = "raise"),
            !.state = CASE out.kind = "Retry" -> "RETRY"
                        [] out.kind = "return" -> "SUCCESS"
                        [] OTHER -> "FAILURE"]
    /\ UNCHANGED <<baseVars, permVars, ctx_seen, ragVars, chunkVars, chat_failed>>
    /\ UNCHANGED <<delay_seen, agent>>

TaskAttemptCall == \E exc \in ExcValues : TaskAttempt(exc)

MaxRetryCount == 5    \* retry numbers _get_retry_delay is called with

\* one call of _get_retry_delay
GetRetryDelay(retry_count) ==
    /\ delay_seen' = delay_seen \cup
          {[retry_count |-> retry_count, delay |-> get_retry_delay(retry_count)]}
    /\ UNCHANGED <<baseVars, permVars, ctx_seen, ragVars, chunkVars>>
    /\ UNCHANGED <<celery_task, chat_failed, agent>>

GetRetryDelayCall == \E retry_count \in 0..MaxRetryCount : GetRetryDelay(retry_count)

(***************************************************************************)
(* agents/copilot_agent.py: CopilotAgent, its ToolContext and the tools    *)
(* it runs through the wrappers of _create_tool_wrapper                    *)
(***************************************************************************)
MaxAgentIds == 2   \* confirmation requests one agent session hands out

\* the parameters of a tool call, by identity
ToolParams == {"p1", "p2"}

NoAgentCall ==
    [op |-> None, tool |-> None, params |-> None, action_id |-> 0,
     confirmed |-> FALSE, raised |-> None, branch |-> None, status |-> None,
     confirmation_required |-> FALSE, confirmed_before |-> {}]

\* no agent; an agent has a role (request_ctx.role), _tool_context (None
\* until the tool_context property is first read) with its
\* confirmation_received flag, the confirmation requests it returned
\* (action id -> tool and parameters) and the action ids confirmed through it
NoAgent ==
    [role |-> None, has_tool_context |-> FALSE, confirmation_received |-> FALSE,
     issued |-> <<>>, confirmed |-> {}, last |-> NoAgentCall]

\* create_copilot_agent
CreateCopilotAgent(role) ==
    /\ agent' = [NoAgent EXCEPT !.role = role]
    /\ UNCHANGED <<baseVars, permVars, ctx_seen, ragVars, chunkVars>>
    /\ UNCHANGED <<celery_task, chat_failed, delay_seen>>

\* the requests (tool and parameters) of the action ids confirmed so far
ConfirmedRequests(a) ==
    {a.issued[id] : id \in a.confirmed \cap DOMAIN a.issued}

\* a tool call of the agent: the wrapper made by _create_tool_wrapper calls
\* tool.run with the session's one ToolContext
AgentToolRun(tool, params, outcome) ==
    /\ agent.role # None
    /\ tool \in get_allowed_tools(agent.role)
    /\ \E tried \in {run_try(tool, agent.role, agent.confirmation_received,
                             "str_args", outcome, Len(agent.issued))} :
         \E given \in {run_handlers([raised |-> tried.raised,
                                     result |-> tried.result])} :
            /\ tried.branch = "confirmation" => Len(agent.issued) < MaxAgentIds
            /\ agent' = [agent EXCEPT
                  !.has_tool_context = TRUE,
                  !.issued = IF given.raised = None
                                /\ given.result.confirmation_required
                             THEN Append(@, [tool |-> tool, params |-> params])
                             ELSE @,
                  !.last = [NoAgentCall EXCEPT
                     !.op = "run", !.tool = tool, !.params = params,
                     !.action_id = given.result.confirmation_action_id,
                     !.raised = given.raised, !.branch = tried.branch,
                     !.confirmation_required = given.result.confirmation_required,
                     !.confirmed_before = ConfirmedRequests(agent)]]
    /\ UNCHANGED <<baseVars, permVars, ctx_seen, ragVars, chunkVars>>
    /\ UNCHANGED <<celery_task, chat_failed, delay_seen>>

\* CopilotAgent.confirm_action
AgentConfirmAction(action_id, confirmed) ==
    /\ agent.role # None
    /\ agent' =
         IF ~confirmed
         THEN [agent EXCEPT
                 !.last = [NoAgentCall EXCEPT
                    !.op = "confirm_action", !.action_id = action_id,
                    !.confirmed = confirmed, !.status = "cancelled"]]
         ELSE IF ~agent.has_tool_context
         THEN [agent EXCEPT
                 !.last = [NoAgentCall EXCEPT
                    !.op = "confirm_action", !.action_id = action_id,
                    !.confirmed = confirmed, !.raised = "AttributeError"]]
         ELSE [agent EXCEPT
                 !.confirmation_received = TRUE,
                 !.confirmed = @ \cup {action_id},
                 !.last = [NoAgentCall EXCEPT
                    !.op = "confirm_action", !.action_id = action_id,
                    !.confirmed = confirmed, !.status = "executed"]]
    /\ UNCHANGED <<baseVars, permVars, ctx_seen, ragVars, chunkVars>>
    /\ UNCHANGED <<celery_task, chat_failed, delay_seen>>

CreateCopilotAgentCall == \E role \in RoleStrings : CreateCopilotAgent(role)

AgentToolRunCall ==
    \E tool \in ALL_TOOLS, params \in ToolParams, outcome \in ExecuteOutcomes :
        AgentToolRun(tool, params, outcome)

AgentConfirmActionCall ==
    \E action_id \in 1..(MaxAgentIds + 1), confirmed \in BOOLEAN :
        AgentConfirmAction(action_id, confirmed)

(***************************************************************************)
(* Calls of the permission functions                                       *)
(***************************************************************************)
NoTools == [role |-> None, allowed_tool_names |-> {}, offered |-> {}]

\* one call of check_permission(role, tool_name)
CheckPermission(role, tool_name) ==
    LET given == check_permission(role, tool_name)
    IN  /\ Cardinality(perm_seen) < MaxPermSeen
        /\ perm_seen' = perm_seen \cup
              {[role |-> role, tool_name |-> tool_name, ok |-> given.ok,
                required_role |-> given.required_role]}
        /\ UNCHANGED <<tools_last, ctx_seen, ragVars, baseVars, moreVars>>

\* CopilotAgent._get_allowed_tools for a request context with this role
AgentGetAllowedTools(role) ==
    LET allowed_tool_names == get_allowed_tools(role)
    IN  /\ tools_last' = [role |-> role,
                          allowed_tool_names |-> allowed_tool_names,
                          offered |-> {tool \in ALL_TOOLS : tool \in allowed_tool_names}]
        /\ UNCHANGED <<perm_seen, ctx_seen, ragVars, baseVars, moreVars>>

CheckPermissionCall ==
    \E role \in RoleInputs, tool_name \in ToolNameInputs :
        CheckPermission(role, tool_name)

AgentToolsCall == \E role \in RoleInputs : AgentGetAllowedTools(role)

(***************************************************************************)
(* Initial state                                                           *)
(***************************************************************************)

(***************************************************************************)
(* Calls of _chunk_text, one loop iteration a step, and of                 *)
(* create_nodes_from_text                                                  *)
(***************************************************************************)
\* the (chunk_size, chunk_overlap) pairs a pipeline is made with; the
\* SentenceSplitter built in __init__ refuses a chunk_overlap above chunk_size
ChunkConfigs ==
    {[chunk_size |-> chunk_size, chunk_overlap |-> overlap] :
        overlap \in {0, chunk_overlap, chunk_size}}
      \cup {[chunk_size |-> 2, chunk_overlap |-> 1]}

ChunkTexts ==
    { <<"a", "b">>,
      <<" ", "a", "b", " ">>,
      <<"a", "b", "c", "d", "e">>,
      <<"a", "b", " ", "c", "d">>,
      <<"a", "b", " ", " ", "c", "d", "e">>,
      <<"a", "b", " ", "c", "d", " ", "e", "f">>,
      <<"a", "b", ".", " ", "c", "d", " ", "e", "f">>,
      <<"a", ",", "b", "c", "d", "e", "f">> }

NoChunker ==
    [pc |-> "idle", text |-> <<>>, chunk_size |-> 0, chunk_overlap |-> 0,
     start |-> 0, chunks |-> <<>>, windows |-> <<>>, iterations |-> 0,
     returned |-> <<>>]

\* _chunk_text up to the while loop
ChunkTextBegin(content, config) ==
    LET text == strip(content)
        called == [NoChunker EXCEPT !.text = text,
                                    !.chunk_size = config.chunk_size,
                                    !.chunk_overlap = config.chunk_overlap]
    IN  /\ ck.pc # "loop"
        /\ ck' = IF Len(text) <= config.chunk_size
                 THEN [called EXCEPT !.pc = "returned", !.returned = <<text>>]
                 ELSE [called EXCEPT !.pc = "loop"]
        /\ UNCHANGED <<cn_last, baseVars, permVars, ctx_seen, ragVars, laterVars>>

\* one iteration of the while loop, and the return when it leaves the loop
\* the loop is running and its iterations are still followed
ChunkIterateEnabled == ck.pc = "loop" /\ ck.iterations < MaxChunkLoop

ChunkIterate ==
    /\ ChunkIterateEnabled
    /\ \E it \in {chunk_iteration(ck.text, ck.start, ck.chunks,
                                  ck.chunk_size, ck.chunk_overlap)} :
          ck' = [ck EXCEPT
                   !.chunks = it.chunks,
                   !.windows = Append(@, <<ck.start, it.end>>),
                   !.start = it.start,
                   !.iterations = @ + 1,
                   !.pc = IF it.start >= Len(ck.text) THEN "returned" ELSE "loop",
                   !.returned = IF it.start >= Len(ck.text)
                                THEN (IF it.chunks = <<>> THEN <<ck.text>>
                                      ELSE it.chunks)
                                ELSE <<>>]
    /\ UNCHANGED <<cn_last, baseVars, permVars, ctx_seen, ragVars, laterVars>>

ChunkTextCall ==
    \E content \in ChunkTexts, config \in ChunkConfigs :
        ChunkTextBegin(content, config)

\* a dict without one of its keys
without(d, key) == [k \in DOMAIN d \ {key} |-> d[k]]

FullMetadata == ingest_metadata("A", "markdown", "s1", EmptyDict)

MetadataValues ==
    {FullMetadata, EmptyDict} \cup {without(FullMetadata, field) : field \in required_fields}

ContentValues == {<<>>, <<" ">>, TextShort, TextLong}

NoCreateNodes ==
    [called |-> FALSE, content |-> <<>>, metadata |-> EmptyDict, raised |-> None,
     nodes |-> <<>>, chunked |-> FALSE]

\* one call of create_nodes_from_text
CreateNodes(content, metadata) ==
    \E made \in {create_nodes_from_text(content, metadata, 0)} :
        /\ made.ended
        /\ cn_last' = [called |-> TRUE, content |-> content, metadata |-> metadata,
                       raised |-> made.raised, nodes |-> made.nodes,
                       chunked |-> made.chunked]
        /\ UNCHANGED <<ck, baseVars, permVars, ctx_seen, ragVars, laterVars>>

CreateNodesCall ==
    \E content \in ContentValues, metadata \in MetadataValues :
        CreateNodes(content, metadata)

Init ==
    /\ last = NoCall
    /\ returned_ids = <<>>
    /\ execute_count = 0
    /\ call_count = 0
    /\ uuid_count = 0
    /\ db = <<>>
    /\ tasks = [t \in Slots |-> IdleTask]
    /\ rejected = NoRequest
    /\ row_lock = [id \in 1..MaxUuid |-> 0]
    /\ chat_returned = {}
    /\ executions = [id \in 1..MaxUuid |-> 0]
    /\ tool_execute_log = {}
    /\ perm_seen = {}
    /\ tools_last = NoTools
    /\ ctx_seen = {}
    /\ points = {}
    /\ collection_exists = FALSE
    /\ node_seq = 0
    /\ ingested_for = EmptyDict
    /\ rag_last = NoRagOp
    /\ ck = NoChunker
    /\ cn_last = NoCreateNodes
    /\ celery_task = NoTask
    /\ chat_failed = NoFailedChat
    /\ delay_seen = {}
    /\ agent = NoAgent

NextRun == RunCall

SpecRun == Init /\ [][NextRun]_vars

Next ==
    Chat \/ Reject \/ RespondRejected \/ Start \/ Log \/ Execute \/ Flush \/ Commit

Spec == Init /\ [][Next]_vars

NextSeq ==
    \/ Chat \/ RejectAlone \/ RespondRejected \/ StartAlone
    \/ Log \/ Execute \/ Flush \/ Commit

SpecSeq == Init /\ [][NextSeq]_vars

NextPerm == CheckPermissionCall \/ AgentToolsCall

SpecPerm == Init /\ [][NextPerm]_vars

NextTenant == CreateTenantContextCall

SpecTenant == Init /\ [][NextTenant]_vars

NextRag == IngestCall \/ DeleteCall \/ ReindexCall \/ SearchCall \/ RetrieveCall

SpecRag == Init /\ [][NextRag]_vars

\* the operations that write the index
NextIndex == IngestCall \/ DeleteCall \/ ReindexCall

SpecIndex == Init /\ [][NextIndex]_vars

\* the chat endpoint alone, database errors included
NextChat == ChatCall

SpecChat == Init /\ [][NextChat]_vars

\* one CopilotAgent session
NextAgent == CreateCopilotAgentCall \/ AgentToolRunCall \/ AgentConfirmActionCall

SpecAgent == Init /\ [][NextAgent]_vars

\* the worker running background tasks
NextTask == ApplyAsyncCall \/ TaskAttemptCall \/ GetRetryDelayCall

SpecTask == Init /\ [][NextTask]_vars

\* the indexing operations: single documents and batches
NextBatch == IngestCall \/ BatchIndexCall

SpecBatch == Init /\ [][NextBatch]_vars

NextChunk == ChunkTextCall \/ ChunkIterate \/ CreateNodesCall

SpecChunk == Init /\ [][NextChunk]_vars

(***************************************************************************)
(* Properties of BaseTool.run (SpecRun)                                    *)
(***************************************************************************)
Called == last.tool # None

Permitted == check_permission(last.role, last.tool).ok

\* execute() invocations made by the last call
ExecutedInLast == execute_count - last.execute_before

\* the ids returned by the calls before the last one
IdsBeforeLast == {returned_ids[i] : i \in 1..last.ids_before}

GatedCall ==
    /\ Called
    /\ requires_confirmation[last.tool]
    /\ Permitted
    /\ ~last.confirmation_received

AsksConfirmationFresh ==
    /\ last.raised = None
    /\ last.result.confirmation_required
    /\ last.result.confirmation_action_id \notin IdsBeforeLast

\* C1 as stated: a permitted call of a requires_confirmation tool without
\* confirmation never invokes execute(), returns confirmation_required=true,
\* and its confirmation_action_id differs from every id returned earlier.
C1_Original ==
    GatedCall => (ExecutedInLast = 0 /\ AsksConfirmationFresh)

\* C1 amended: such a call never invokes execute() and never raises; it
\* returns confirmation_required=true with an id different from every id
\* returned earlier unless get_confirmation_details raises
\* (send_team_notification with a message that is no string), and then it
\* returns a success=false result that asks for no confirmation.
C1_GateNeverExecutes ==
    GatedCall =>
        /\ ExecutedInLast = 0
        /\ IF get_confirmation_details_raises(last.tool, last.kwargs)
           THEN /\ last.raised = None
                /\ ~last.result.success
                /\ ~last.result.confirmation_required
           ELSE AsksConfirmationFresh

\* a second confirmation request, after an earlier one returned an id
C1_Witness ==
    /\ GatedCall
    /\ last.result.confirmation_required
    /\ last.ids_before >= 1

\* C9: a permitted call of a tool without requires_confirmation, or of a
\* requires_confirmation tool with confirmation_received=true, invokes
\* execute() exactly once and returns confirmation_required=false.
C9_ExecutesExactlyOnce ==
    (Called /\ Permitted
       /\ (~requires_confirmation[last.tool] \/ last.confirmation_received))
    => /\ ExecutedInLast = 1
       /\ last.raised = None
       /\ ~last.result.confirmation_required

C9_Witness ==
    /\ Called /\ Permitted
    /\ requires_confirmation[last.tool] /\ last.confirmation_received
    /\ ExecutedInLast = 1
    /\ last.result.success

\* C10: a call by a role the tool does not allow raises the permission
\* error: run() returns no ToolResult, and neither execute() nor the
\* confirmation request is reached.
C10_DeniedRaises ==
    (Called /\ ~Permitted)
    => /\ last.raised = "ToolPermissionError"
       /\ last.branch = "denied"
       /\ ExecutedInLast = 0
       /\ uuid_count = last.uuid_before
       /\ Len(returned_ids) = last.ids_before

C10_Witness ==
    /\ Called /\ ~Permitted
    /\ last.role = "medico"
    /\ last.tool = "update_occurrence_status"
    /\ last.raised = "ToolPermissionError"

\* C11: for a permitted caller, whatever execute() or the confirmation
\* details step raised inside run(), run() raises nothing: a ToolError gives
\* a success=false result whose data carries the error's code, any other
\* exception gives a success=false result with the generic error entry and
\* no error code.
C11_NeverPropagates ==
    (Called /\ Permitted) =>
        /\ last.raised = None
        /\ last.tried_raised = "ToolExecutionError" =>
              /\ ~last.result.success
              /\ last.result.data_error_code = "TOOL_EXECUTION_ERROR"
        /\ last.tried_raised = "Exception" =>
              /\ ~last.result.success
              /\ last.result.data_error
              /\ last.result.data_error_code = None
              /\ ~last.result.confirmation_required

\* execute() raised a ToolError in a confirmed call of a gated tool
C11_Witness ==
    /\ Called /\ Permitted
    /\ last.branch = "execute"
    /\ last.tried_raised = "ToolExecutionError"
    /\ last.result.data_error_code = "TOOL_EXECUTION_ERROR"

(***************************************************************************)
(* Properties of the permission functions (SpecPerm)                       *)
(***************************************************************************)
\* C12 as a whole: every check_permission call made for an action of the
\* matrix succeeded exactly when its role is one of the four roles and in
\* the action's allowed set; calls with the same arguments gave the same
\* outcome; a role string that is no recognised role was denied for every
\* action.
C12_MatchesMatrix ==
    /\ \A c \in perm_seen :
          /\ c.tool_name \in DOMAIN PERMISSION_MATRIX =>
                (c.ok <=> (c.role \in {"admin", "gestor", "operador", "medico"}
                           /\ c.role \in PERMISSION_MATRIX[c.tool_name]))
          /\ c.role \notin {"admin", "gestor", "operador", "medico"} => ~c.ok
    /\ \A c1, c2 \in perm_seen :
          (c1.role = c2.role /\ c1.tool_name = c2.tool_name) => c1.ok = c2.ok

\* an unrecognised role denied for an action every recognised role may use,
\* and a recognised role allowed for an action
C12_Witness ==
    /\ \E c \in perm_seen :
          /\ c.role \notin Role
          /\ c.tool_name \in DOMAIN PERMISSION_MATRIX
          /\ PERMISSION_MATRIX[c.tool_name] = Role
          /\ ~c.ok
    /\ \E c \in perm_seen : c.ok /\ c.role = "operador"

\* C13: every check_permission call made for an action name without a
\* matrix entry succeeded exactly when the role is admin.
C13_UnknownActionAdminOnly ==
    \A c \in perm_seen :
        c.tool_name \notin DOMAIN PERMISSION_MATRIX => (c.ok <=> c.role = "admin")

C13_Witness ==
    /\ \E c \in perm_seen :
          c.tool_name \notin DOMAIN PERMISSION_MATRIX /\ c.role = "admin" /\ c.ok
    /\ \E c \in perm_seen :
          c.tool_name \notin DOMAIN PERMISSION_MATRIX /\ c.role = "gestor" /\ ~c.ok

\* C14: what get_allowed_tools gave for a role is the set of matrix actions
\* check_permission allows that role (empty for an unrecognised role), the
\* tools the agent offers are the registered tools named in that set, and
\* run() denies none of the offered tools to that role.
C14_OfferedAreAllowed ==
    tools_last.role # None =>
        /\ tools_last.allowed_tool_names =
              {a \in DOMAIN PERMISSION_MATRIX : check_permission(tools_last.role, a).ok}
        /\ tools_last.role \notin Role => tools_last.allowed_tool_names = {}
        /\ tools_last.offered = ALL_TOOLS \cap tools_last.allowed_tool_names
        /\ \A tool \in tools_last.offered :
              run_try(tool, tools_last.role, TRUE, "str_args", "ok", 0).branch # "denied"

\* a role that is offered some tools and not others
C14_Witness ==
    /\ tools_last.role = "operador"
    /\ "update_occurrence_status" \in tools_last.offered
    /\ "generate_report" \notin tools_last.offered

(***************************************************************************)
(* Properties of create_tenant_context (SpecTenant)                        *)
(***************************************************************************)
\* C15: a call without override id (header absent or empty) returns a
\* context whose effective_tenant_id is the caller's assigned tenant_id; a
\* call by a caller that is no super-admin with a non-empty override id
\* raises TenantContextDeniedError and produces no context; no context
\* produced for a caller that is no super-admin has an effective_tenant_id
\* other than its assigned tenant_id.
C15_NoOverrideForNonSuperAdmin ==
    \A c \in ctx_seen :
        /\ c.header_tenant_id \in {None, ""} =>
              /\ c.raised = None
              /\ c.context.effective_tenant_id = c.user_claims.tenant_id
        /\ (~c.user_claims.is_super_admin /\ c.header_tenant_id \notin {None, ""}) =>
              /\ c.raised = "TenantContextDeniedError"
              /\ c.context = NoContext
        /\ (~c.user_claims.is_super_admin /\ c.raised = None) =>
              c.context.effective_tenant_id = c.user_claims.tenant_id

\* a caller that is no super-admin asked for another tenant and was refused
C15_Witness ==
    \E c \in ctx_seen :
        /\ ~c.user_claims.is_super_admin
        /\ c.user_claims.tenant_id = "T1"
        /\ c.header_tenant_id = "T3"
        /\ c.raised = "TenantContextDeniedError"

\* what C16 promises for a call
SwitchedContext(c) ==
    /\ c.raised = None
    /\ c.context.effective_tenant_id = c.header_tenant_id
    /\ c.context.tenant_id = c.user_claims.tenant_id
    /\ c.context.is_super_admin

Accepted(t) == tasks[t].pc # "idle"

Rejected == rejected # NoRequest

\* the rejected request named a row of the caller's tenant
InCallerTenant ==
    /\ rejected.target # NoRow
    /\ rejected.target.tenant_id = effective_tenant_id[rejected.user]

\* C2 as stated: every action id the chat endpoint returns in
\* confirmation_required names a persisted tool-execution row of that user,
\* which a later confirm of that id finds.  (Spec)
C2_Original ==
    \A r \in chat_returned :
        /\ r.action_id \in DOMAIN db
        /\ db[r.action_id].action_type = "ai.tool_execution"
        /\ db[r.action_id].user_id = r.user_id

C4_Original ==
    \A t1, t2 \in Slots :
        (/\ t1 # t2
         /\ Accepted(t1) /\ Accepted(t2)
         /\ tasks[t1].action_id = tasks[t2].action_id
         /\ tasks[t1].confirmed /\ tasks[t2].confirmed)
        => /\ ~(tasks[t1].executed /\ tasks[t2].executed)
           /\ executions[tasks[t1].action_id] <= 1

\* C5 as stated: a confirm request that was confirmed and has ended invoked
\* execute() of the tool named on the pending row, with the parameters
\* stored on that row.  (Spec)
C5_Original ==
    \A t \in Slots :
        (tasks[t].pc = "done" /\ tasks[t].confirmed)
        => \E call \in tool_execute_log :
              /\ call.tool_name = tasks[t].pending_action.tool_name
              /\ call.params = tasks[t].pending_action.input_params

\* the steps of request t
StepOf(t) == tasks'[t] # tasks[t]

\* C6: a cancel request (confirmed=false, passed the checks) never invokes
\* the execute step; its steps before the commit write nothing to the table,
\* and its commit sets the status of its row to cancelled, adds the one
\* confirmation row, with status cancelled, and changes nothing else.  (Spec)
C6_CancelStep ==
    \A t \in Slots :
        (Accepted(t) /\ ~tasks[t].confirmed /\ StepOf(t) /\ tasks[t].pc # "done")
        => /\ ~tasks'[t].executed
           /\ executions' = executions
           /\ tool_execute_log' = tool_execute_log
           /\ IF tasks'[t].pc = "done"
              THEN /\ tasks[t].log.status = "cancelled"
                   /\ tasks[t].log.action_type = "ai.confirmation"
                   /\ tasks[t].log_id \notin DOMAIN db
                   /\ db' = [db EXCEPT ![tasks[t].action_id].status = "cancelled"]
                            @@ (tasks[t].log_id :> tasks[t].log)
              ELSE db' = db

C6_CancelNeverExecutes == [][C6_CancelStep]_vars

C6_Witness ==
    \E t \in Slots :
        /\ tasks[t].pc = "done"
        /\ ~tasks[t].confirmed
        /\ tasks[t].response.status_code = 200
        /\ db[tasks[t].action_id].status = "cancelled"
        /\ db[tasks[t].log_id].status = "cancelled"
        /\ executions[tasks[t].action_id] = 0

\* a request for a pending row by a user who is not the row's user
ByOtherUser ==
    /\ Rejected
    /\ rejected.target # NoRow
    /\ rejected.target.status = "pending"
    /\ rejected.target.user_id # rejected.user

OnlyOwnerProceeds ==
    \A t \in Slots :
        Accepted(t) => tasks[t].pending_action.user_id = tasks[t].user

\* C7 as stated: a confirm or cancel of a pending row by a user who is not
\* the row's user is rejected as unauthorized, and nothing is executed for
\* that user.  (Spec)
C7_Original ==
    /\ OnlyOwnerProceeds
    /\ ByOtherUser => rejected.response.error = "unauthorized"

\* C7 amended: such a request is always rejected and executes nothing: as
\* unauthorized (403) when the row belongs to the caller's effective tenant,
\* whatever the caller's role, and as action_not_found (404) when it belongs
\* to another tenant.
C7_OtherUserRejected ==
    /\ OnlyOwnerProceeds
    /\ ByOtherUser =>
          IF InCallerTenant
          THEN /\ rejected.response.error = "unauthorized"
               /\ rejected.response.status_code = 403
          ELSE /\ rejected.response.error = "action_not_found"
               /\ rejected.response.status_code = 404

\* the admin of the tenant is refused the pending action of another user
C7_Witness ==
    /\ ByOtherUser
    /\ InCallerTenant
    /\ role_of[rejected.user] = "admin"
    /\ rejected.response.error = "unauthorized"
    /\ executions[rejected.action_id] = 0

\* C8: a request with a well-formed id is rejected as action_not_found (404)
\* exactly when the id names no row of the caller's tenant, and as
\* action_not_pending (400) exactly when it names a row of the caller's
\* tenant whose status is not pending; no request of either kind proceeds.
C8_NotFoundVersusResolved ==
    /\ (Rejected /\ rejected.action_id # 0) =>
          /\ (rejected.response.error = "action_not_found"
                <=> ~InCallerTenant)
          /\ (rejected.response.error = "action_not_pending"
                <=> (InCallerTenant /\ rejected.target.status # "pending"))
          /\ (rejected.response.error = "action_not_found"
                => rejected.response.status_code = 404)
          /\ (rejected.response.error = "action_not_pending"
                => rejected.response.status_code = 400)
    /\ \A t \in Slots :
          Accepted(t) =>
             /\ tasks[t].pending_action.status = "pending"
             /\ tasks[t].pending_action.tenant_id = effective_tenant_id[tasks[t].user]

\* a row of another tenant is reported as not found
C8_Witness ==
    /\ Rejected
    /\ rejected.target # NoRow
    /\ ~InCallerTenant
    /\ rejected.response.error = "action_not_found"

(***************************************************************************)
(* Properties of the document index (SpecRag)                              *)
(***************************************************************************)
\* the stored chunks of a (tenant, source) pair
StoredFor(stored, tenant_id, source_path) ==
    {p \in stored : p.metadata.tenant_id = tenant_id
                     /\ p.metadata.source_path = source_path}

Queried == rag_last.op \in {"search", "retrieve_context"}

\* C17 as stated: a retrieval or search issued for tenant B never returns a
\* chunk whose stored tenant_id differs from B, and never returns a chunk
\* that was ingested for another tenant.
C17_Original ==
    Queried =>
        \A i \in DOMAIN rag_last.hits :
            /\ rag_last.hits[i].metadata.tenant_id = rag_last.tenant_id
            /\ ingested_for[rag_last.hits[i].id] = rag_last.tenant_id

Ingested == rag_last.op = "ingest" /\ rag_last.raised = None

\* C18 as stated: every chunk produced by an ingest with tenant_id = T is
\* stored with tenant_id = T, with the document's source_path and doc_type,
\* with chunk_index equal to its position and total_chunks equal to the
\* number of chunks produced, whatever the extra metadata.
C18_Original ==
    Ingested =>
        \A p \in points :
            p.id \in rag_last.node_ids =>
                /\ p.metadata.tenant_id = rag_last.tenant_id
                /\ p.metadata.source_path = rag_last.source_path
                /\ p.metadata.doc_type = rag_last.doc_type
                /\ p.metadata.chunk_index =
                       Cardinality({id \in rag_last.node_ids : id < p.id})
                /\ p.metadata.total_chunks = Cardinality(rag_last.node_ids)

\* C19: a delete_by_source(T, S) that does not raise removes every stored
\* chunk whose tenant_id is T and whose source_path is S, and leaves every
\* chunk with another tenant_id or another source_path stored and unchanged.
C19_DeleteBySourceExact ==
    [][(rag_last'.op = "delete_by_source" /\ rag_last'.raised = None) =>
          /\ StoredFor(points', rag_last'.tenant_id, rag_last'.source_path) = {}
          /\ points' = points \ StoredFor(points, rag_last'.tenant_id,
                                          rag_last'.source_path)]_vars

\* a delete that removed a chunk and left a chunk of the same source that
\* belongs to another tenant
C19_Witness ==
    /\ rag_last.op = "delete_by_source"
    /\ rag_last.raised = None
    /\ rag_last.removed # {}
    /\ \E p \in points :
          /\ p.metadata.source_path = rag_last.source_path
          /\ p.metadata.tenant_id # rag_last.tenant_id

\* C20 as stated: after a re-index of (T, S) that does not raise, the stored
\* chunks of (T, S) are exactly the chunks the new ingest produced, every
\* chunk stored for (T, S) before is gone, and no other (tenant, source)
\* pair holds a chunk the re-index made.
C20_Original ==
    (rag_last.op = "reindex" /\ rag_last.raised = None) =>
        LET after == StoredFor(points, rag_last.tenant_id, rag_last.source_path)
        IN  /\ point_ids(after) = rag_last.node_ids
            /\ rag_last.removed \cap point_ids(points) = {}
            /\ point_ids(points \ after) \cap rag_last.node_ids = {}

\* C22 as stated: every result list the retrieval pipeline returns for a
\* query holds only candidates whose score is at least similarity_threshold,
\* has at most top_k items and is ordered by non-increasing score (so it is
\* empty, and nothing is raised, when no candidate clears the threshold).
C22_Original ==
    (Queried /\ rag_last.raised = None) =>
        /\ \A i \in DOMAIN rag_last.hits :
              rag_last.hits[i].score >= DEFAULT_SIMILARITY_THRESHOLD
        /\ Len(rag_last.hits) <= rag_last.limit
        /\ \A i, j \in DOMAIN rag_last.hits :
              i < j => rag_last.hits[i].score >= rag_last.hits[j].score

\* C23 as stated: when the embedding model or the vector index fails during
\* a retrieval, the retrieval returns an empty result and raises nothing.
C23_Original ==
    (Queried /\ rag_last.fails # None) =>
        /\ rag_last.raised = None
        /\ rag_last.hits = <<>>

\* C24 as stated: no indexing operation completes normally while a
\* document it was asked to index has not been indexed: when the ingest of a
\* document fails, the operation ends in an error.
C24_Original ==
    (rag_last.op \in {"ingest", "batch_index"} /\ rag_last.raised = None) =>
        rag_last.failed = 0

\* C27 as stated: an attempt of a background task that fails with
\* ValueError, TypeError, KeyError or a permission error is never retried:
\* the task is then in terminal failure after that single attempt.
C27_Original ==
    (celery_task.attempts > 0 /\ celery_task.exc \in dont_autoretry_for) =>
        (celery_task.pc = "done" /\ celery_task.audit_status = "failed")

\* C28 as stated: a task whose every attempt failed is, once it is over, in
\* terminal failure: its audit record says failed and a dead-letter record
\* was emitted; it never ends in success.
C28_Original ==
    (celery_task.pc = "done" /\ celery_task.attempts > 0
       /\ celery_task.failed_attempts = celery_task.attempts) =>
        (celery_task.audit_status = "failed" /\ celery_task.dead_letter)

\* C29 as stated: an audit record is created pending and updated exactly
\* once to a terminal status: the terminal status a finished confirm request
\* wrote to its row is the status the row has, no later step changed it.
\* (Spec)
C29_Original ==
    \A t \in Slots :
        tasks[t].pc = "done" =>
            /\ tasks[t].updated.status \in TerminalStatus
            /\ db[tasks[t].action_id].status = tasks[t].updated.status

\* C30 as stated: a chat request whose processing raised after its query
\* audit record was created leaves that record in the table, with status
\* failed.  (SpecChat)
C30_Original ==
    chat_failed # NoFailedChat =>
        /\ chat_failed.query_id \in DOMAIN db
        /\ db[chat_failed.query_id].status = "failed"

\* C31 as stated: when execute() was invoked and the backend could not be
\* reached, the result of run() carries the error code
\* BACKEND_CONNECTION_ERROR, and a result for an error the backend returned
\* carries TOOL_EXECUTION_ERROR.  (SpecRun)
C31_Original ==
    (last.branch = "execute" /\ last.outcome \in BackendOutcomes) =>
        /\ last.raised = None
        /\ last.result.data_error_code =
              (IF last.outcome = "backend_unreachable"
               THEN "BACKEND_CONNECTION_ERROR" ELSE "TOOL_EXECUTION_ERROR")

\* C32 as stated: every ToolResult run() returns has execution_time_ms set,
\* the result of the confirmation-pending path included.  (SpecRun)
C32_Original ==
    (Called /\ last.raised = None) => last.result.execution_time_ms_set

\* the delay the fixed sequence 10, 30, 60 gives retry number n
SequenceDelay(n) ==
    CASE n = 0 -> 10
      [] n = 1 -> 30
      [] OTHER -> 60

\* C33: the delay before retry number n is the n-th value of 10, 30, 60 and
\* 60 beyond the sequence; a task is retried at most max_retries times and
\* makes at most max_retries + 1 attempts.  (SpecTask)
C33_RetryDelaysAndCap ==
    /\ \A d \in delay_seen : d.delay = SequenceDelay(d.retry_count)
    /\ \A i \in DOMAIN celery_task.countdowns :
          celery_task.countdowns[i] = SequenceDelay(i - 1)
    /\ celery_task.name # None =>
          /\ celery_task.retries <= max_retries(celery_task.name)
          /\ celery_task.retries = Len(celery_task.countdowns)
          /\ celery_task.attempts <= max_retries(celery_task.name) + 1

\* a task is over after max_retries retries, the last after 60 seconds, and
\* a delay beyond the sequence was asked for
C33_Witness ==
    /\ celery_task.pc = "done"
    /\ celery_task.name = "process_chat_message"
    /\ celery_task.attempts = max_retries(celery_task.name) + 1
    /\ celery_task.countdowns = <<10, 30, 60>>
    /\ \E d \in delay_seen : d.retry_count > Len(RETRY_BACKOFF_DELAYS)

\* C34 as stated: the audit record of a task has severity CRITICAL only
\* when the task failed with its retries exhausted; a failure that ends the
\* task with no retry attempted is recorded with severity WARN.  (SpecTask)
C34_Original ==
    /\ celery_task.severity = "CRITICAL" =>
          /\ celery_task.audit_status = "failed"
          /\ celery_task.retries = max_retries(celery_task.name)
    /\ (celery_task.audit_status = "failed" /\ celery_task.retries = 0) =>
          celery_task.severity = "WARN"

\* C35 as stated: when the requests for a pending action have ended, a
\* record whose status is cancelled had no execute step invoked for it, and
\* a record for which execute was invoked is success or failed.  (Spec)
C35_Original ==
    NoneInFlight =>
        \A id \in DOMAIN db :
            /\ db[id].status = "cancelled" /\ db[id].action_type = "ai.tool_execution"
                  => executions[id] = 0
            /\ executions[id] > 0 => db[id].status \in {"success", "failed"}

\* C36 as stated: a pending action for a tool is created for, and executed
\* on confirmation by, only a user whose role the permission matrix allows
\* that tool.  (SpecSeq)
C36_Original ==
    /\ \A id \in DOMAIN db :
          db[id].action_type = "ai.tool_execution" =>
              check_permission(role_of[db[id].user_id], db[id].tool_name).ok
    /\ \A t \in Slots :
          tasks[t].executed =>
              check_permission(role_of[tasks[t].user],
                               tasks[t].pending_action.tool_name).ok

\* C37 as stated: a run through the agent of a requires_confirmation tool
\* for a request (tool and parameters) that no confirmed action id was
\* issued for returns confirmation_required and does not invoke execute(),
\* other requests having been confirmed or not.  (SpecAgent)
C37_Original ==
    (/\ agent.last.op = "run"
     /\ requires_confirmation[agent.last.tool]
     /\ [tool |-> agent.last.tool, params |-> agent.last.params]
            \notin agent.last.confirmed_before) =>
        (/\ agent.last.branch # "execute"
         /\ agent.last.raised = None => agent.last.confirmation_required)

\* C39 as stated: when the re-ingest step of reindex_document fails, the
\* chunks indexed for the tenant and source before the call are still in the
\* index: the call removed none that is not there any more.  (SpecIndex)
C39_Original ==
    (rag_last.op = "reindex" /\ rag_last.raised # None) =>
        rag_last.removed \subseteq point_ids(points)

\* a step in which a confirm or cancel request is rejected
RejectStep == rejected' # NoRequest /\ rejected' # rejected

\* a step in which the request in slot t passes the checks
AcceptStep(t) == tasks'[t] # tasks[t] /\ tasks'[t].pc = "checked"

\* the request names a pending row of the caller's tenant that is the caller's
Confirmable(table, action_id, user) ==
    /\ action_id \in DOMAIN table
    /\ table[action_id].tenant_id = effective_tenant_id[user]
    /\ table[action_id].status = "pending"
    /\ table[action_id].user_id = user

C40_Step ==
    /\ RejectStep =>
          /\ ~Confirmable(db, rejected'.action_id, rejected'.user)
          /\ db' = db
          /\ executions' = executions
          /\ tool_execute_log' = tool_execute_log
          /\ tasks' = tasks
    /\ \A t \in Slots :
          AcceptStep(t) => Confirmable(db, tasks'[t].action_id, tasks'[t].user)

\* C40: a confirm or cancel request for an unknown action id, an action of
\* another tenant, an action that is not pending or an action of another
\* user is rejected, and the step that rejects it changes nothing: the table
\* is the same (the targeted row as it was, no confirmation row added),
\* nothing is executed and no request task is started.  (Spec)
C40_RejectedChangesNothing == [][C40_Step]_vars

\* a request for a pending action of another tenant was rejected; the row is
\* as it was, the table holds no confirmation row and nothing was executed
C40_Witness ==
    /\ Rejected
    /\ rejected.target # NoRow
    /\ ~InCallerTenant
    /\ rejected.target.status = "pending"
    /\ db[rejected.action_id] = rejected.target
    /\ \A id \in DOMAIN db : db[id].action_type # "ai.confirmation"
    /\ \A id \in DOMAIN executions : executions[id] = 0

(***************************************************************************)
(* Properties of create_nodes_from_text and of _chunk_text (SpecChunk)     *)
(***************************************************************************)
MissingField ==
    /\ cn_last.called
    /\ \E field \in required_fields : field \notin DOMAIN cn_last.metadata

RaisedBeforeChunking ==
    /\ cn_last.raised = "DocumentIngestionError"
    /\ ~cn_last.chunked
    /\ cn_last.nodes = <<>>

\* C21 as stated: create_nodes_from_text called with metadata that lacks
\* tenant_id, doc_type or source_path raises DocumentIngestionError for every
\* content, before any chunk is computed and with no node to write.
C21_Original ==
    MissingField => RaisedBeforeChunking

\* C21 amended: it raises DocumentIngestionError, before any chunk is
\* computed and with no node to write, for every content that is not empty
\* after stripping; for an empty or all-whitespace content it returns the
\* empty list without looking at the metadata.
C21_MissingFieldRaises ==
    MissingField =>
        IF strip(cn_last.content) # <<>>
        THEN RaisedBeforeChunking
        ELSE /\ cn_last.raised = None
             /\ ~cn_last.chunked
             /\ cn_last.nodes = <<>>

\* a call with a text to chunk and metadata without tenant_id
C21_Witness ==
    /\ MissingField
    /\ "tenant_id" \notin DOMAIN cn_last.metadata
    /\ strip(cn_last.content) # <<>>
    /\ cn_last.raised = "DocumentIngestionError"

\* C25 as stated: when chunk_overlap >= chunk_size the loop of _chunk_text
\* ends for every text.  What an iteration does is a function of start alone,
\* so a loop that ends passes through each position 0..len(text)-1 of start
\* at most once: it makes at most len(text) iterations.
C25_Original ==
    ck.chunk_overlap >= ck.chunk_size => ck.iterations <= Len(ck.text)

\* C38 as stated: with 0 <= chunk_overlap < chunk_size every iteration of
\* the loop of _chunk_text leaves start greater than it found it, also when
\* the end of the window was pulled back to a boundary: the starts of the
\* windows of the iterations made so far increase strictly, and start is
\* past the start of the last window.  (SpecChunk)
C38_Original ==
    ck.chunk_overlap < ck.chunk_size =>
        /\ \A i \in 1..(Len(ck.windows) - 1) :
              ck.windows[i + 1][1] > ck.windows[i][1]
        /\ ck.windows # <<>> => ck.start > ck.windows[Len(ck.windows)][1]

ChunkReturned == ck.pc = "returned"

\* the windows text[start:end] of the loop iterations cover every character
\* position of the trimmed text
WindowsCover ==
    \A i \in 1..Len(ck.text) :
        \E w \in 1..Len(ck.windows) :
            ck.windows[w][1] < i /\ i <= ck.windows[w][2]

\* each window starts at or before the end of the window before it
WindowsContiguous ==
    \A w \in 1..(Len(ck.windows) - 1) : ck.windows[w + 1][1] <= ck.windows[w][2]

\* the texts obtained by joining the chunks in order, dropping from the head
\* of a chunk a region that repeats the tail of the text joined so far
RECURSIVE Joins(_)
Joins(chunks) ==
    IF chunks = <<>> THEN {<<>>}
    ELSE IF Len(chunks) = 1 THEN {chunks[1]}
    ELSE LET chunk == chunks[Len(chunks)]
             joined == Joins(SubSeq(chunks, 1, Len(chunks) - 1))
         IN  {j \o SubSeq(chunk, d + 1, Len(chunk)) :
                <<j, d>> \in {jd \in joined \X (0..Len(chunk)) :
                                /\ jd[2] <= Len(jd[1])
                                /\ SubSeq(chunk, 1, jd[2])
                                     = SubSeq(jd[1], Len(jd[1]) - jd[2] + 1, Len(jd[1]))}}

NotWhitespace(c) == c \notin Whitespace

WithoutWhitespace(text) == SelectSeq(text, NotWhitespace)

\* the stripped texts of the windows, those that are empty left out
RECURSIVE StrippedWindows(_, _)
StrippedWindows(text, windows) ==
    IF windows = <<>> THEN <<>>
    ELSE LET chunk == strip(slice(text, windows[1][1], windows[1][2]))
         IN  (IF chunk # <<>> THEN <<chunk>> ELSE <<>>)
               \o StrippedWindows(text, Tail(windows))

\* C26 as stated: for a text longer than chunk_size the windows cover every
\* character position of the trimmed text, consecutive windows are
\* contiguous or overlapping, and joining the returned chunks while dropping
\* the overlapping regions gives back the trimmed text; a text of at most
\* chunk_size characters gives exactly one chunk, the trimmed text.
C26_Original ==
    ChunkReturned =>
        IF Len(ck.text) <= ck.chunk_size
        THEN ck.returned = <<ck.text>>
        ELSE /\ WindowsCover
             /\ WindowsContiguous
             /\ ck.text \in Joins(ck.returned)

\* C26 amended: when _chunk_text returns, the windows cover the trimmed text
\* and are contiguous or overlapping, the chunks are the stripped texts of
\* the windows in order (a window of whitespace gives no chunk), and joining
\* them while dropping the overlapping regions gives back the trimmed text
\* up to the whitespace stripped at the chunk edges; a text of at most
\* chunk_size characters gives exactly one chunk, the trimmed text.
C26_LosslessUpToWhitespace ==
    ChunkReturned =>
        IF Len(ck.text) <= ck.chunk_size
        THEN ck.returned = <<ck.text>>
        ELSE /\ WindowsCover
             /\ WindowsContiguous
             /\ ck.returned = StrippedWindows(ck.text, ck.windows)
             /\ WithoutWhitespace(ck.text)
                  \in {WithoutWhitespace(j) : j \in Joins(ck.returned)}

\* a call that returned two or more chunks from overlapping windows
C26_Witness ==
    /\ ChunkReturned
    /\ Len(ck.returned) >= 2
    /\ \E w \in 1..(Len(ck.windows) - 1) : ck.windows[w + 1][1] < ck.windows[w][2]

====
